---- MODULE Spec2Model ----
(***************************************************************************)
(* A model of the confucius configuration library: the canonical value     *)
(* store (src/src/lib.rs), the line-format converter (src/src/formats/     *)
(* ini.rs, src/src/utils.rs), the structured converters (formats/toml.rs,  *)
(* yaml.rs, json.rs), the include resolver (src/src/include.rs) and the    *)
(* validation engine (src/src/validation.rs).                              *)
(*                                                                         *)
(* Text is modelled as a sequence of one-character strings, so that the    *)
(* parsers work on characters as the code does.  A floating point number   *)
(* f is modelled by the integer 10*f (one decimal digit).                  *)
(***************************************************************************)
EXTENDS Integers, Sequences, FiniteSets, TLC

VARIABLES
    values,            \* Config.values: section -> key -> ConfigValue
    format,            \* Config.format
    config_file_path,  \* Config.config_file_path (NoPath when None)
    fs,                \* the file system: path -> file
    stack,             \* the call stack of the running load_from_file
    result,            \* outcome of the last operation
    schema,            \* the ValidationSchema
    hist               \* history kept for the properties (not program state)

vars == <<values, format, config_file_path, fs, stack, result, schema, hist>>

(***************************************************************************)
(* Strings                                                                 *)
(***************************************************************************)
UpperSeq == <<"A","B","C","D","E","F","G","H","I","J","K","L","M",
              "N","O","P","Q","R","S","T","U","V","W","X","Y","Z">>

LowerSeq == <<"a","b","c","d","e","f","g","h","i","j","k","l","m",
              "n","o","p","q","r","s","t","u","v","w","x","y","z">>

DigitSeq == <<"0","1","2","3","4","5","6","7","8","9">>

\* char::is_whitespace, restricted to the blanks the model's files use
IsSpace(c) == c \in {" ", "\t"}

\* str::to_lowercase, one character
to_lowercase_char(c) ==
    IF \E i \in 1..Len(UpperSeq) : UpperSeq[i] = c
    THEN LowerSeq[CHOOSE i \in 1..Len(UpperSeq) : UpperSeq[i] = c]
    ELSE c

\* str::to_lowercase
to_lowercase(s) == [i \in 1..Len(s) |-> to_lowercase_char(s[i])]

\* str::starts_with
starts_with(s, p) == Len(s) >= Len(p) /\ SubSeq(s, 1, Len(p)) = p

\* str::ends_with
ends_with(s, p) == Len(s) >= Len(p) /\ SubSeq(s, Len(s) - Len(p) + 1, Len(s)) = p

\* the text after the first n characters
Drop(s, n) == SubSeq(s, n + 1, Len(s))

\* str::trim_start
RECURSIVE trim_start(_)
trim_start(s) == IF s # <<>> /\ IsSpace(s[1]) THEN trim_start(Tail(s)) ELSE s

\* str::trim_end
RECURSIVE trim_end(_)
trim_end(s) ==
    IF s # <<>> /\ IsSpace(s[Len(s)]) THEN trim_end(SubSeq(s, 1, Len(s) - 1)) ELSE s

\* str::trim
trim(s) == trim_end(trim_start(s))

\* str::trim_start_matches(pat): removes the prefix as often as it repeats
RECURSIVE trim_start_matches(_, _)
trim_start_matches(s, p) ==
    IF p # <<>> /\ starts_with(s, p) THEN trim_start_matches(Drop(s, Len(p)), p) ELSE s

\* str::contains(char)
contains_char(s, c) == \E i \in 1..Len(s) : s[i] = c

\* index of the first c in s, 0 when there is none
RECURSIVE IndexFrom(_, _, _)
IndexFrom(s, c, i) ==
    IF i > Len(s) THEN 0 ELSE IF s[i] = c THEN i ELSE IndexFrom(s, c, i + 1)

IndexOf(s, c) == IndexFrom(s, c, 1)

\* index of the last c in s, 0 when there is none
RECURSIVE LastIndexFrom(_, _, _)
LastIndexFrom(s, c, i) ==
    IF i < 1 THEN 0 ELSE IF s[i] = c THEN i ELSE LastIndexFrom(s, c, i - 1)

LastIndexOf(s, c) == LastIndexFrom(s, c, Len(s))

(***************************************************************************)
(* ConfigValue and numbers                                                 *)
(***************************************************************************)
\* ConfigValue::String
VString(s) == [t |-> "String", v |-> s]

\* ConfigValue::Integer
VInteger(i) == [t |-> "Integer", v |-> i]

\* ConfigValue::Float; f is ten times the number
VFloat(f) == [t |-> "Float", v |-> f]

\* ConfigValue::Boolean
VBoolean(b) == [t |-> "Boolean", v |-> b]

\* ConfigValue::Array
VArray(a) == [t |-> "Array", v |-> a]

\* ConfigValue::Table
VTable(m) == [t |-> "Table", v |-> m]

\* Option::None for an Option<&ConfigValue>
NoValue == [t |-> "None", v |-> 0]

\* the outcome of a value conversion that panics
PanicValue == [t |-> "Panic", v |-> 0]

IsDigit(c) == \E i \in 1..Len(DigitSeq) : DigitSeq[i] = c

DigitValue(c) == (CHOOSE i \in 1..Len(DigitSeq) : DigitSeq[i] = c) - 1

AllDigits(s) == \A i \in 1..Len(s) : IsDigit(s[i])

\* the number a run of decimal digits stands for
RECURSIVE DigitsValue(_)
DigitsValue(s) ==
    IF s = <<>> THEN 0
    ELSE 10 * DigitsValue(SubSeq(s, 1, Len(s) - 1)) + DigitValue(s[Len(s)])

\* the decimal digits of n >= 0
RECURSIVE NatToString(_)
NatToString(n) ==
    IF n < 10 THEN <<DigitSeq[n + 1]>>
    ELSE NatToString(n \div 10) \o <<DigitSeq[(n % 10) + 1]>>

\* i64::to_string
int_to_string(i) == IF i < 0 THEN <<"-">> \o NatToString(0 - i) ELSE NatToString(i)

\* f64::to_string (Display): an integral number prints without a decimal point
float_to_string(f) ==
    LET a == IF f < 0 THEN 0 - f ELSE f
        sign == IF f < 0 THEN <<"-">> ELSE <<>>
    IN  IF a % 10 = 0 THEN sign \o NatToString(a \div 10)
        ELSE sign \o NatToString(a \div 10) \o <<".">> \o NatToString(a % 10)

\* the text without a leading sign
Unsigned(s) == IF s # <<>> /\ s[1] \in {"+", "-"} THEN Tail(s) ELSE s

IsNegative(s) == s # <<>> /\ s[1] = "-"

\* str::parse::<i64>() is Ok: an optional sign and at least one digit
\* (the model's numbers stay far below 2^63, where the parse overflows)
parse_i64_ok(s) == Unsigned(s) # <<>> /\ AllDigits(Unsigned(s))

parse_i64(s) ==
    IF IsNegative(s) THEN 0 - DigitsValue(Unsigned(s)) ELSE DigitsValue(Unsigned(s))

\* str::parse::<f64>() is Ok: sign, digits, an optional point and digits, with
\* at least one digit (exponents, inf and nan do not occur in the model's files)
parse_f64_ok(s) ==
    LET u == Unsigned(s)
        dot == IndexOf(u, ".")
        ip == IF dot = 0 THEN u ELSE SubSeq(u, 1, dot - 1)
        fp == IF dot = 0 THEN <<>> ELSE Drop(u, dot)
    IN  /\ AllDigits(ip)
        /\ AllDigits(fp)
        /\ Len(ip) + Len(fp) >= 1

\* ten times the parsed number; digits after the first decimal are dropped
parse_f64(s) ==
    LET u == Unsigned(s)
        dot == IndexOf(u, ".")
        ip == IF dot = 0 THEN u ELSE SubSeq(u, 1, dot - 1)
        fp == IF dot = 0 THEN <<>> ELSE Drop(u, dot)
        a == 10 * DigitsValue(ip) + (IF fp = <<>> THEN 0 ELSE DigitValue(fp[1]))
    IN  IF IsNegative(s) THEN 0 - a ELSE a

(***************************************************************************)
(* src/src/utils.rs                                                        *)
(***************************************************************************)
\* utils::is_quoted
is_quoted(s) == starts_with(s, <<"\"">>) /\ ends_with(s, <<"\"">>)

\* the loop of utils::unquote: a backslash followed by a quote is dropped
RECURSIVE unescape(_)
unescape(c) ==
    IF c = <<>> THEN <<>>
    ELSE IF c[1] = "\\" /\ Len(c) >= 2 /\ c[2] = "\""
         THEN <<"\"">> \o unescape(Drop(c, 2))
         ELSE <<c[1]>> \o unescape(Tail(c))

\* utils::unquote panics: &s[1..s.len()-1] on the one-character text "
unquote_panics(s) == is_quoted(s) /\ Len(s) < 2

\* utils::unquote
unquote(s) ==
    IF is_quoted(s) /\ Len(s) >= 2 THEN unescape(SubSeq(s, 2, Len(s) - 1)) ELSE s

\* the loop of utils::strip_comments, in_quotes being its flag
RECURSIVE strip_loop(_, _)
strip_loop(line, in_quotes) ==
    IF line = <<>> THEN <<>>
    ELSE IF line[1] = "\"" THEN <<"\"">> \o strip_loop(Tail(line), ~in_quotes)
    ELSE IF line[1] = "#" /\ ~in_quotes THEN <<>>
    ELSE <<line[1]>> \o strip_loop(Tail(line), in_quotes)

\* utils::strip_comments
strip_comments(line) == trim_end(strip_loop(line, FALSE))

(***************************************************************************)
(* src/src/formats/ini.rs: values and lines                                *)
(***************************************************************************)
TrueWords == { <<"t","r","u","e">>, <<"y","e","s">>, <<"o","n">>, <<"1">> }

FalseWords == { <<"f","a","l","s","e">>, <<"n","o">>, <<"o","f","f">>, <<"0">> }

\* ini::parse_value
parse_value(value_str) ==
    IF is_quoted(value_str)
    THEN IF unquote_panics(value_str) THEN PanicValue ELSE VString(unquote(value_str))
    ELSE IF to_lowercase(value_str) \in TrueWords THEN VBoolean(TRUE)
    ELSE IF to_lowercase(value_str) \in FalseWords THEN VBoolean(FALSE)
    ELSE IF parse_i64_ok(value_str) THEN VInteger(parse_i64(value_str))
    ELSE IF parse_f64_ok(value_str) THEN VFloat(parse_f64(value_str))
    ELSE VString(value_str)

\* the text {:?} gives for a table; its content is never read back
DebugText == <<"{", "}">>

\* the items of an array joined with ", "
RECURSIVE join_items(_)
join_items(items) ==
    IF items = <<>> THEN <<>>
    ELSE IF Len(items) = 1 THEN items[1]
    ELSE items[1] \o <<",", " ">> \o join_items(Tail(items))

\* ini::format_value
RECURSIVE format_value(_)
format_value(value) ==
    CASE value.t = "String" -> <<"\"">> \o value.v \o <<"\"">>
      [] value.t = "Integer" -> int_to_string(value.v)
      [] value.t = "Float" -> float_to_string(value.v)
      [] value.t = "Boolean" ->
            IF value.v THEN <<"t","r","u","e">> ELSE <<"f","a","l","s","e">>
      [] value.t = "Array" ->
            <<"\"">> \o join_items([i \in 1..Len(value.v) |-> format_value(value.v[i])])
                     \o <<"\"">>
      [] value.t = "Table" -> <<"\"">> \o DebugText \o <<"\"">>

IncludeWord == <<"i","n","c","l","u","d","e">>

\* include_regex ^\s*include\s*=\s*(.*?)\s*$ matches the line
is_include_line(line) ==
    LET a == trim_start(line)
    IN  /\ starts_with(a, IncludeWord)
        /\ starts_with(trim_start(Drop(a, Len(IncludeWord))), <<"=">>)

\* the group the include_regex captures
include_capture(line) ==
    trim(Tail(trim_start(Drop(trim_start(line), Len(IncludeWord)))))

\* section_regex ^\s*\[(.*?)\]\s*$ matches the line
is_section_line(line) ==
    LET a == trim(line)
    IN  Len(a) >= 2 /\ a[1] = "[" /\ a[Len(a)] = "]"

\* the group the section_regex captures: up to the last ] of the line
section_capture(line) ==
    LET a == trim(line) IN SubSeq(a, 2, Len(a) - 1)

\* kv_regex ^\s*(.*?)\s*=\s*(.*?)\s*$ matches the line
is_kv_line(line) == contains_char(line, "=")

\* the first group of the kv_regex: the text before the first =
kv_key(line) == trim(SubSeq(line, 1, IndexOf(line, "=") - 1))

\* the second group of the kv_regex: the text after the first =
kv_value(line) == trim(Drop(line, IndexOf(line, "=")))

(***************************************************************************)
(* Paths and files.  A path is the sequence of its components; an absolute *)
(* path starts with the empty component.  A file is a record: lines, the   *)
(* text as read_to_string and lines() give it; syntax and tree, the        *)
(* document tree the parser library of that syntax builds from the text    *)
(* (the other libraries reject it).                                        *)
(***************************************************************************)
\* Option::None for config_file_path
NoPath == << <<"?">> >>

\* the components of a path text, split at every /
RECURSIVE split_path(_)
split_path(text) ==
    LET i == IndexOf(text, "/")
    IN  IF i = 0 THEN <<text>>
        ELSE <<SubSeq(text, 1, i - 1)>> \o split_path(Drop(text, i))

\* Path::is_absolute
is_absolute(p) == p # <<>> /\ p[1] = <<>>

\* Path::parent of a file path
parent(p) == SubSeq(p, 1, Len(p) - 1)

\* path_clean::PathClean::clean: drops empty and . components and resolves ..
RECURSIVE clean_from(_, _)
clean_from(done, rest) ==
    IF rest = <<>> THEN done
    ELSE LET c == rest[1]
         IN  IF c = <<>> \/ c = <<".">> THEN clean_from(done, Tail(rest))
             ELSE IF c = <<".", ".">>
             THEN IF done = <<>> \/ done[Len(done)] = <<".", ".">>
                  THEN clean_from(Append(done, c), Tail(rest))
                  ELSE IF done = << <<>> >> THEN clean_from(done, Tail(rest))
                  ELSE clean_from(parent(done), Tail(rest))
             ELSE clean_from(Append(done, c), Tail(rest))

clean(p) == IF is_absolute(p) THEN clean_from(<< <<>> >>, Tail(p)) ELSE clean_from(<<>>, p)

\* utils::resolve_path
resolve_path(base_file, relative_path) ==
    LET rel == split_path(relative_path)
    IN  IF is_absolute(rel) THEN clean(rel) ELSE clean(parent(base_file) \o rel)

\* Path::extension: the text after the last dot of the file name
extension(p) ==
    LET name == p[Len(p)]
        i == LastIndexOf(name, ".")
    IN  IF i <= 1 THEN <<>> ELSE Drop(name, i)

\* glob::Pattern::matches for one component: * stands for any run of characters
RECURSIVE wild_match(_, _)
wild_match(pat, name) ==
    IF pat = <<>> THEN name = <<>>
    ELSE IF pat[1] = "*"
         THEN \/ wild_match(Tail(pat), name)
              \/ name # <<>> /\ wild_match(pat, Tail(name))
         ELSE name # <<>> /\ name[1] = pat[1] /\ wild_match(Tail(pat), Tail(name))

\* glob::glob: the paths of the file system the resolved pattern matches
glob(files, pattern) ==
    { q \in DOMAIN files :
        /\ Len(q) = Len(pattern)
        /\ \A i \in 1..Len(q) : wild_match(pattern[i], q[i]) }

\* every enumeration order of a set of paths
Orders(S) ==
    { o \in [1..Cardinality(S) -> S] : \A i, j \in 1..Cardinality(S) : i # j => o[i] # o[j] }

(***************************************************************************)
(* Format detection                                                        *)
(***************************************************************************)
Shebang == <<"#","!","c","o","n","f","i","g","/">>

IniWord == <<"i","n","i">>

TomlWord == <<"t","o","m","l">>

YamlWord == <<"y","a","m","l">>

YmlWord == <<"y","m","l">>

JsonWord == <<"j","s","o","n">>

\* content.lines().next().unwrap_or("")
first_line(lines) == IF lines = <<>> THEN <<>> ELSE lines[1]

\* impl From<&str> for ConfigFormat
ConfigFormat_from(s) ==
    LET l == to_lowercase(s)
    IN  IF l = IniWord THEN "Ini"
        ELSE IF l = TomlWord THEN "Toml"
        ELSE IF l = YamlWord \/ l = YmlWord THEN "Yaml"
        ELSE IF l = JsonWord THEN "Json"
        ELSE "Unknown"

\* first_line.trim_start_matches("#!config/").trim()
format_str(line) == trim(trim_start_matches(line, Shebang))

\* Config::detect_format_from_content: the format it sets
detect_format_from_content(lines) ==
    IF starts_with(first_line(lines), Shebang)
    THEN ConfigFormat_from(format_str(first_line(lines)))
    ELSE "Ini"

\* include::detect_format_from_content
include_detect_format(lines) ==
    IF starts_with(first_line(lines), Shebang)
    THEN ConfigFormat_from(format_str(first_line(lines)))
    ELSE "Ini"

\* the lines a parser keeps: the first is skipped when it starts with #!config/
lines_to_process(lines) ==
    IF starts_with(first_line(lines), Shebang) THEN Tail(lines) ELSE lines

(***************************************************************************)
(* src/src/lib.rs: the store                                               *)
(***************************************************************************)
\* HashMap::new()
EmptyMap == [x \in {} |-> NoValue]

\* HashMap::insert
Put(m, k, v) == [x \in DOMAIN m \cup {k} |-> IF x = k THEN v ELSE m[x]]

DefaultSection == <<"d","e","f","a","u","l","t">>

\* Config::get
get(vals, section, key) ==
    IF section \in DOMAIN vals /\ key \in DOMAIN vals[section]
    THEN vals[section][key]
    ELSE NoValue

\* a set that starts the section anew
set_replaces_section(vals, section, key, value) ==
    Put(vals, section, Put(EmptyMap, key, value))

\* Config::set
set(vals, section, key, value) ==
    Put(vals, section,
        Put(IF section \in DOMAIN vals THEN vals[section] ELSE EmptyMap, key, value))

\* the (section, key) pairs present in a store
Pairs(vals) == { <<s, k>> \in (DOMAIN vals) \X UNION { DOMAIN vals[s] : s \in DOMAIN vals } :
                    k \in DOMAIN vals[s] }

(***************************************************************************)
(* Document trees of the structured formats.  A library value is a record  *)
(* like a ConfigValue, with the kinds Null and Datetime besides; a table   *)
(* is a function from names to library values, and so is a document root.  *)
(***************************************************************************)
\* toml::toml_value_to_config_value
RECURSIVE toml_value_to_config_value(_)
toml_value_to_config_value(value) ==
    CASE value.t = "Array" ->
            VArray([i \in 1..Len(value.v) |-> toml_value_to_config_value(value.v[i])])
      [] value.t = "Table" ->
            VTable([k \in DOMAIN value.v |-> toml_value_to_config_value(value.v[k])])
      [] value.t = "Datetime" -> VString(value.v)
      [] OTHER -> value

\* json::json_value_to_config_value
RECURSIVE json_value_to_config_value(_)
json_value_to_config_value(value) ==
    CASE value.t = "Array" ->
            VArray([i \in 1..Len(value.v) |-> json_value_to_config_value(value.v[i])])
      [] value.t = "Table" ->
            VTable([k \in DOMAIN value.v |-> json_value_to_config_value(value.v[k])])
      [] value.t = "Null" -> VString(<<>>)
      [] OTHER -> value

\* yaml::yaml_value_to_config_value
RECURSIVE yaml_value_to_config_value(_)
yaml_value_to_config_value(value) ==
    CASE value.t = "Array" ->
            VArray([i \in 1..Len(value.v) |-> yaml_value_to_config_value(value.v[i])])
      [] value.t = "Table" ->
            VTable([k \in DOMAIN value.v |-> yaml_value_to_config_value(value.v[k])])
      [] value.t = "Null" -> VString(<<>>)
      [] OTHER -> value

\* the conversion of the converter conv
to_config_value(conv, value) ==
    CASE conv = "toml" -> toml_value_to_config_value(value)
      [] conv = "json" -> json_value_to_config_value(value)
      [] conv = "yaml" -> yaml_value_to_config_value(value)

\* config.set(section_name, key, ...) for the keys of a table, in the order keys
RECURSIVE store_table(_, _, _, _, _)
store_table(vals, conv, section_name, table, keys) ==
    IF keys = <<>> THEN vals
    ELSE store_table(set(vals, section_name, keys[1], to_config_value(conv, table[keys[1]])),
                     conv, section_name, table, Tail(keys))

\* some order of a set of names (the order does not matter where it is used:
\* the names of one map are distinct)
RECURSIVE SomeOrder(_)
SomeOrder(S) ==
    IF S = {} THEN <<>> ELSE LET x == CHOOSE y \in S : TRUE IN <<x>> \o SomeOrder(S \ {x})

\* the loop over the root entries of parse_toml, parse_json and parse_yaml,
\* names being the order the library iterates the root in
RECURSIVE store_entries(_, _, _, _)
store_entries(vals, conv, root, names) ==
    IF names = <<>> THEN vals
    ELSE LET n == names[1]
             v == root[n]
             next == IF n = IncludeWord THEN vals
                     ELSE IF v.t = "Table"
                          THEN store_table(vals, conv, n, v.v, SomeOrder(DOMAIN v.v))
                          ELSE set(vals, DefaultSection, n, to_config_value(conv, v))
         IN  store_entries(next, conv, root, Tail(names))

\* toml::config_value_to_toml_value, json::config_value_to_json_value and
\* yaml::config_value_to_yaml_value: each kind maps to the library's like kind
RECURSIVE config_value_to_lib_value(_)
config_value_to_lib_value(value) ==
    CASE value.t = "String" -> [t |-> "String", v |-> value.v]
      [] value.t = "Integer" -> [t |-> "Integer", v |-> value.v]
      [] value.t = "Float" -> [t |-> "Float", v |-> value.v]
      [] value.t = "Boolean" -> [t |-> "Boolean", v |-> value.v]
      [] value.t = "Array" ->
            [t |-> "Array",
             v |-> [i \in 1..Len(value.v) |-> config_value_to_lib_value(value.v[i])]]
      [] value.t = "Table" ->
            [t |-> "Table",
             v |-> [k \in DOMAIN value.v |-> config_value_to_lib_value(value.v[k])]]

\* the section table (section_table, section_obj, section_mapping) of a writer
section_table(section_values) ==
    [k \in DOMAIN section_values |-> config_value_to_lib_value(section_values[k])]

\* the loop over config.values of write_toml, write_json and write_yaml,
\* sections being the order the HashMap iterates in
RECURSIVE build_root(_, _, _)
build_root(root, vals, sections) ==
    IF sections = <<>> THEN root
    ELSE LET s == sections[1]
             t == section_table(vals[s])
             next == IF s = DefaultSection
                     THEN [n \in DOMAIN root \cup DOMAIN t |->
                              IF n \in DOMAIN t THEN t[n] ELSE root[n]]
                     ELSE IF DOMAIN t # {} THEN Put(root, s, VTable(t))
                     ELSE root
         IN  build_root(next, vals, Tail(sections))

(***************************************************************************)
(* The running load.  A machine m is the part of the state a load changes: *)
(* values, the call stack (one frame per active parse_ini, parse_toml,     *)
(* parse_yaml, parse_json or process_glob_include call), the status of the *)
(* load and the log of the converter calls made.                           *)
(***************************************************************************)
\* the tree a parser library builds from a file it cannot parse
NoTree == [kind |-> "Error", root |-> EmptyMap]

\* a document whose root is a table, an object or a mapping
ObjectTree(root) == [kind |-> "Object", root |-> root]

Frame(kind, path, section, items, pending) ==
    [kind |-> kind, path |-> path, idx |-> 1, section |-> section,
     items |-> items, pending |-> pending]

Top(m) == m.stack[Len(m.stack)]

\* the top frame replaced by f
SetTop(m, f) == [m EXCEPT !.stack = [@ EXCEPT ![Len(@)] = f]]

\* an Err(..) that empties the store on its way up
Fail_rolls_back(m, err) == [m EXCEPT !.stack = <<>>, !.status = err, !.values = EmptyMap]

\* an Err(..) propagated by ? up to load_from_file
Fail(m, err) == [m EXCEPT !.stack = <<>>, !.status = err]

\* a call returns Ok(()); the load is over when it was the outermost one
Pop(m) ==
    LET s == SubSeq(m.stack, 1, Len(m.stack) - 1)
    IN  [m EXCEPT !.stack = s, !.status = IF s = <<>> THEN "Ok" ELSE @]

\* the converter whose call is the innermost on a stack ("load": none is)
RECURSIVE Caller(_)
Caller(st) ==
    IF st = <<>> THEN "load"
    ELSE IF st[Len(st)].kind # "glob" THEN st[Len(st)].kind
    ELSE Caller(SubSeq(st, 1, Len(st) - 1))

\* the include entries of a root: a string is one entry, an array its items
include_items(root) ==
    IF IncludeWord \notin DOMAIN root THEN <<>>
    ELSE IF root[IncludeWord].t = "String" THEN <<root[IncludeWord]>>
    ELSE root[IncludeWord].v

\* a converter call that returns at once on a file whose call is running
Enter_once(m, conv, path) ==
    LET logged == [m EXCEPT !.log =
                      Append(@, [path |-> path, conv |-> conv, by |-> Caller(m.stack),
                                 glob |-> m.stack # <<>> /\ Top(m).kind = "glob"])]
        tree == fs[path].trees[conv]
    IN  IF \E i \in 1..Len(m.stack) : m.stack[i].kind # "glob" /\ m.stack[i].path = path
        THEN m
        ELSE IF conv = "ini"
        THEN [logged EXCEPT !.stack =
                 Append(@, Frame("ini", path, DefaultSection, <<>>, {}))]
        ELSE IF tree.kind # "Object" THEN Fail(logged, "ParseError")
        ELSE IF /\ IncludeWord \in DOMAIN tree.root
                /\ tree.root[IncludeWord].t \notin {"String", "Array"}
             THEN Fail(logged, "IncludeError")
        ELSE [logged EXCEPT !.stack =
                 Append(@, Frame(conv, path, <<>>, include_items(tree.root), {}))]

\* the call parse_ini / parse_toml / parse_yaml / parse_json (config, content, path)
\* up to its first include: the structured converters parse the whole text first
Enter(m, conv, path) ==
    LET logged == [m EXCEPT !.log =
                      Append(@, [path |-> path, conv |-> conv, by |-> Caller(m.stack),
                                 glob |-> m.stack # <<>> /\ Top(m).kind = "glob"])]
        tree == fs[path].trees[conv]
    IN  IF conv = "ini"
        THEN [logged EXCEPT !.stack =
                 Append(@, Frame("ini", path, DefaultSection, <<>>, {}))]
        ELSE IF tree.kind # "Object" THEN Fail(logged, "ParseError")
        ELSE IF /\ IncludeWord \in DOMAIN tree.root
                /\ tree.root[IncludeWord].t \notin {"String", "Array"}
             THEN Fail(logged, "IncludeError")
        ELSE [logged EXCEPT !.stack =
                 Append(@, Frame(conv, path, <<>>, include_items(tree.root), {}))]

\* glob::Pattern::new fails: ** must be a whole component
pattern_error(pattern) ==
    \E i \in 1..Len(pattern) :
        /\ pattern[i] # <<"*", "*">>
        /\ \E j \in 1..(Len(pattern[i]) - 1) : pattern[i][j] = "*" /\ pattern[i][j + 1] = "*"

\* process_glob_include without the found_any test after its loop
process_glob_include_any(m, glob_pattern, base_path) ==
    LET resolved_pattern == resolve_path(base_path, glob_pattern)
    IN  IF pattern_error(resolved_pattern) THEN Fail(m, "IncludeError")
        ELSE [m EXCEPT !.stack = Append(@, Frame("glob", base_path, <<>>, <<>>,
                                                 glob(fs, resolved_pattern)))]

\* include::process_glob_include up to its loop
process_glob_include(m, glob_pattern, base_path) ==
    LET resolved_pattern == resolve_path(base_path, glob_pattern)
        entries == glob(fs, resolved_pattern)
    IN  IF pattern_error(resolved_pattern) THEN Fail(m, "IncludeError")
        ELSE IF entries = {} THEN Fail(m, "IncludeError")
        ELSE [m EXCEPT !.stack = Append(@, Frame("glob", base_path, <<>>, <<>>, entries))]

\* include::include_content
include_content(m, path) ==
    LET fmt == include_detect_format(fs[path].lines)
    IN  IF fmt \in {"Ini", "Unknown"} THEN Enter(m, "ini", path)
        ELSE Fail(m, "UnsupportedFormat")

\* an include directive that is skipped
process_include_skipped(m, include_path, base_path) == m

\* process_include as it would be if the current section were shared by the
\* calls: the included file starts in the section of the including file
process_include_inherits(m, include_path, base_path) ==
    LET resolved_path == resolve_path(base_path, include_path)
        entered == Enter(m, "ini", resolved_path)
    IN  IF contains_char(include_path, "*")
        THEN process_glob_include(m, include_path, base_path)
        ELSE IF resolved_path \notin DOMAIN fs THEN Fail(m, "IncludeError")
        ELSE IF ~fs[resolved_path].readable THEN Fail(m, "IncludeError")
        ELSE SetTop(entered, [Top(entered) EXCEPT !.section = Top(m).section])

\* ini::process_include
process_include(m, include_path, base_path) ==
    IF contains_char(include_path, "*")
    THEN process_glob_include(m, include_path, base_path)
    ELSE LET resolved_path == resolve_path(base_path, include_path)
         IN  IF resolved_path \notin DOMAIN fs THEN Fail(m, "IncludeError")
             ELSE IF ~fs[resolved_path].readable THEN Fail(m, "IncludeError")
             ELSE Enter(m, "ini", resolved_path)

\* the converter toml::process_single_include picks ("Unsupported": it fails)
toml_dispatch(line, ext) ==
    IF starts_with(line, Shebang \o TomlWord) THEN "toml"
    ELSE IF starts_with(line, Shebang \o IniWord) THEN "ini"
    ELSE IF starts_with(line, Shebang \o YamlWord) THEN "Unsupported"
    ELSE IF ext = TomlWord THEN "toml"
    ELSE IF ext = IniWord THEN "ini"
    ELSE IF ext = YamlWord \/ ext = YmlWord THEN "Unsupported"
    ELSE "toml"

\* the converter yaml::process_single_include picks
yaml_dispatch(line, ext) ==
    IF starts_with(line, Shebang \o YamlWord) THEN "yaml"
    ELSE IF starts_with(line, Shebang \o TomlWord) THEN "toml"
    ELSE IF starts_with(line, Shebang \o IniWord) THEN "ini"
    ELSE IF ext = YamlWord \/ ext = YmlWord THEN "yaml"
    ELSE IF ext = TomlWord THEN "toml"
    ELSE IF ext = IniWord THEN "ini"
    ELSE "yaml"

\* the converter json::process_single_include picks
json_dispatch(line, ext) ==
    IF starts_with(line, Shebang \o JsonWord) THEN "json"
    ELSE IF starts_with(line, Shebang \o YamlWord) THEN "yaml"
    ELSE IF starts_with(line, Shebang \o TomlWord) THEN "toml"
    ELSE IF starts_with(line, Shebang \o IniWord) THEN "ini"
    ELSE IF ext = JsonWord THEN "json"
    ELSE IF ext = YamlWord \/ ext = YmlWord THEN "yaml"
    ELSE IF ext = TomlWord THEN "toml"
    ELSE IF ext = IniWord THEN "ini"
    ELSE "json"

\* toml::, yaml:: and json::process_single_include
process_single_include(m, conv, include_path, base_path) ==
    IF contains_char(include_path, "*")
    THEN process_glob_include(m, include_path, base_path)
    ELSE LET resolved_path == resolve_path(base_path, include_path)
             line == first_line(fs[resolved_path].lines)
             ext == extension(resolved_path)
             to == CASE conv = "toml" -> toml_dispatch(line, ext)
                     [] conv = "yaml" -> yaml_dispatch(line, ext)
                     [] conv = "json" -> json_dispatch(line, ext)
         IN  IF resolved_path \notin DOMAIN fs THEN Fail(m, "IncludeError")
             ELSE IF ~fs[resolved_path].readable THEN Fail(m, "IncludeError")
             ELSE IF to = "Unsupported" THEN Fail(m, "UnsupportedFormat")
             ELSE Enter(m, to, resolved_path)

\* the loop of parse_ini as it would be if a pair already in the store kept
\* its value
RECURSIVE ini_run_keeps_first(_, _, _, _)
ini_run_keeps_first(vals, lines, i, current_section) ==
    IF i > Len(lines)
    THEN [values |-> vals, idx |-> i, section |-> current_section,
          event |-> "end", arg |-> <<>>]
    ELSE LET line == strip_comments(lines[i])
         IN  IF line = <<>> THEN ini_run_keeps_first(vals, lines, i + 1, current_section)
             ELSE IF is_include_line(line)
             THEN [values |-> vals, idx |-> i + 1, section |-> current_section,
                   event |-> "include", arg |-> include_capture(line)]
             ELSE IF is_section_line(line)
             THEN ini_run_keeps_first(vals, lines, i + 1, section_capture(line))
             ELSE IF is_kv_line(line)
             THEN IF parse_value(kv_value(line)) = PanicValue
                  THEN [values |-> vals, idx |-> i, section |-> current_section,
                        event |-> "panic", arg |-> <<>>]
                  ELSE ini_run_keeps_first(
                           IF get(vals, current_section, kv_key(line)) # NoValue THEN vals
                           ELSE set(vals, current_section, kv_key(line),
                                    parse_value(kv_value(line))),
                           lines, i + 1, current_section)
             ELSE ini_run_keeps_first(vals, lines, i + 1, current_section)

\* the loop of parse_ini as it would be if a section header made the section
RECURSIVE ini_run_opens_section(_, _, _, _)
ini_run_opens_section(vals, lines, i, current_section) ==
    IF i > Len(lines)
    THEN [values |-> vals, idx |-> i, section |-> current_section,
          event |-> "end", arg |-> <<>>]
    ELSE LET line == strip_comments(lines[i])
         IN  IF line = <<>> THEN ini_run_opens_section(vals, lines, i + 1, current_section)
             ELSE IF is_include_line(line)
             THEN [values |-> vals, idx |-> i + 1, section |-> current_section,
                   event |-> "include", arg |-> include_capture(line)]
             ELSE IF is_section_line(line)
             THEN ini_run_opens_section(
                      IF section_capture(line) \in DOMAIN vals THEN vals
                      ELSE Put(vals, section_capture(line), EmptyMap),
                      lines, i + 1, section_capture(line))
             ELSE IF is_kv_line(line)
             THEN IF parse_value(kv_value(line)) = PanicValue
                  THEN [values |-> vals, idx |-> i, section |-> current_section,
                        event |-> "panic", arg |-> <<>>]
                  ELSE ini_run_opens_section(set(vals, current_section, kv_key(line),
                                   parse_value(kv_value(line))),
                               lines, i + 1, current_section)
             ELSE ini_run_opens_section(vals, lines, i + 1, current_section)

\* the loop of ini::parse_ini from line i on, up to the next include directive
\* or the end of the file; event tells how it stopped
RECURSIVE ini_run(_, _, _, _)
ini_run(vals, lines, i, current_section) ==
    IF i > Len(lines)
    THEN [values |-> vals, idx |-> i, section |-> current_section,
          event |-> "end", arg |-> <<>>]
    ELSE LET line == strip_comments(lines[i])
         IN  IF line = <<>> THEN ini_run(vals, lines, i + 1, current_section)
             ELSE IF is_include_line(line)
             THEN [values |-> vals, idx |-> i + 1, section |-> current_section,
                   event |-> "include", arg |-> include_capture(line)]
             ELSE IF is_section_line(line)
             THEN ini_run(vals, lines, i + 1, section_capture(line))
             ELSE IF is_kv_line(line)
             THEN IF parse_value(kv_value(line)) = PanicValue
                  THEN [values |-> vals, idx |-> i, section |-> current_section,
                        event |-> "panic", arg |-> <<>>]
                  ELSE ini_run(set(vals, current_section, kv_key(line),
                                   parse_value(kv_value(line))),
                               lines, i + 1, current_section)
             ELSE ini_run(vals, lines, i + 1, current_section)

\* one step of the parse_ini call on top of the stack
parse_ini(m) ==
    LET f == Top(m)
        r == ini_run(m.values, lines_to_process(fs[f.path].lines), f.idx, f.section)
        m1 == SetTop([m EXCEPT !.values = r.values],
                     [f EXCEPT !.idx = r.idx, !.section = r.section])
    IN  CASE r.event = "end" -> Pop(m1)
          [] r.event = "panic" -> Fail(m1, "Panic")
          [] r.event = "include" -> process_include(m1, r.arg, f.path)

\* one step of the process_glob_include call on top of the stack: the entry q
process_glob_entry(m, q) ==
    LET f == Top(m)
    IN  IF ~fs[q].readable THEN Fail(m, "IncludeError")
        ELSE include_content(SetTop(m, [f EXCEPT !.pending = @ \ {q}]), q)

\* a structured converter that stores its root entries before its first include
parse_structured_entries_first(m, names) ==
    LET f == Top(m)
        stored == IF f.idx = 1
                  THEN [m EXCEPT !.values =
                           store_entries(@, f.kind, fs[f.path].trees[f.kind].root, names)]
                  ELSE m
        m1 == SetTop(stored, [f EXCEPT !.idx = @ + 1])
    IN  IF f.idx <= Len(f.items)
        THEN IF f.items[f.idx].t # "String" THEN Fail(stored, "IncludeError")
             ELSE process_single_include(m1, f.kind, f.items[f.idx].v, f.path)
        ELSE Pop(stored)

\* one step of the parse_toml, parse_yaml or parse_json call on top of the
\* stack: its next include, or the loop over the root when none is left
parse_structured(m, names) ==
    LET f == Top(m)
        m1 == SetTop(m, [f EXCEPT !.idx = @ + 1])
    IN  IF f.idx <= Len(f.items)
        THEN IF f.items[f.idx].t # "String" THEN Fail(m, "IncludeError")
             ELSE process_single_include(m1, f.kind, f.items[f.idx].v, f.path)
        ELSE Pop([m EXCEPT !.values =
                     store_entries(@, f.kind, fs[f.path].trees[f.kind].root, names)])


(***************************************************************************)
(* The state after construction and the operations of Config               *)
(***************************************************************************)
\* what the last operation returned
Outcome(op, status) == [op |-> op, status |-> status, errors |-> <<>>]

\* ValidationSchema::new
NewSchema ==
    [sections |-> EmptyMap, required_sections |-> {},
     allow_unknown_sections |-> TRUE, allow_unknown_keys |-> TRUE]

\* the history the properties read: log, the converter calls of the last load
\* (the file, the converter, the converter that included it, through a glob or not);
\* top, the path it was given; loads and sets, the number of operations done;
\* last, the set calls made, in order; saved, the store
\* written by the last save; before, what the last load, apply_defaults,
\* validate or validate_and_apply_defaults started from
NewHist ==
    [log |-> <<>>, top |-> NoPath, loads |-> 0, sets |-> 0, last |-> <<>>,
     saved |-> EmptyMap,
     before |-> [values |-> EmptyMap, format |-> "Unknown", path |-> NoPath,
                 op |-> "new"]]

\* Config::new and ValidationSchema::new, over the file system files
New(files) ==
    /\ values = EmptyMap
    /\ format = "Unknown"
    /\ config_file_path = NoPath
    /\ fs = files
    /\ stack = <<>>
    /\ result = Outcome("new", "Ok")
    /\ schema = NewSchema
    /\ hist = NewHist

\* what an operation starts from: the store and the operation done last
Before ==
    [values |-> values, format |-> format, path |-> config_file_path, op |-> result.op]

\* the machine of the current state
Machine == [values |-> values, stack |-> stack, status |-> result.status, log |-> hist.log]

\* the running load moves to machine m
Becomes(m) ==
    /\ values' = m.values
    /\ stack' = m.stack
    /\ result' = Outcome("load", m.status)
    /\ hist' = [hist EXCEPT !.log = m.log]
    /\ UNCHANGED <<format, config_file_path, fs, schema>>

\* the converter load_from_file calls for a format
ConverterOf(fmt) ==
    CASE fmt = "Ini" -> "ini" [] fmt = "Toml" -> "toml"
      [] fmt = "Yaml" -> "yaml" [] fmt = "Json" -> "json"

\* load_from_file as it would be if a load started from an empty store
load_from_file_fresh(path) ==
    LET m0 == [values |-> EmptyMap, stack |-> <<>>, status |-> "Running", log |-> <<>>]
        fmt == detect_format_from_content(fs[path].lines)
        m == IF fmt = "Unknown" THEN Fail(m0, "UnsupportedFormat")
             ELSE Enter(m0, ConverterOf(fmt), path)
        h == [hist EXCEPT !.top = path, !.loads = @ + 1, !.log = <<>>,
                          !.before = Before]
    IN  /\ stack = <<>>
        /\ IF path \notin DOMAIN fs \/ ~fs[path].readable
           THEN /\ result' = Outcome("load", "Io")
                /\ hist' = h
                /\ UNCHANGED <<values, format, config_file_path, stack>>
           ELSE /\ config_file_path' = path
                /\ format' = fmt
                /\ values' = m.values
                /\ stack' = m.stack
                /\ result' = Outcome("load", m.status)
                /\ hist' = [h EXCEPT !.log = m.log]
        /\ UNCHANGED <<fs, schema>>

\* Config::load_from_file up to the first include of the file
load_from_file(path) ==
    LET m0 == [values |-> values, stack |-> <<>>, status |-> "Running", log |-> <<>>]
        fmt == detect_format_from_content(fs[path].lines)
        m == IF fmt = "Unknown" THEN Fail(m0, "UnsupportedFormat")
             ELSE Enter(m0, ConverterOf(fmt), path)
        h == [hist EXCEPT !.top = path, !.loads = @ + 1, !.log = <<>>,
                          !.before = Before]
    IN  /\ stack = <<>>
        /\ IF path \notin DOMAIN fs \/ ~fs[path].readable
           THEN /\ result' = Outcome("load", "Io")
                /\ hist' = h
                /\ UNCHANGED <<values, format, config_file_path, stack>>
           ELSE /\ config_file_path' = path
                /\ format' = fmt
                /\ values' = m.values
                /\ stack' = m.stack
                /\ result' = Outcome("load", m.status)
                /\ hist' = [h EXCEPT !.log = m.log]
        /\ UNCHANGED <<fs, schema>>

\* the parse_ini call on top of the stack runs to its next include or its end
ParseIniStep ==
    /\ stack # <<>>
    /\ Top(Machine).kind = "ini"
    /\ Becomes(parse_ini(Machine))

\* the process_glob_include call on top of the stack takes its next entry, in
\* whatever order the directory is enumerated, or ends
GlobStep ==
    /\ stack # <<>>
    /\ Top(Machine).kind = "glob"
    /\ IF Top(Machine).pending = {}
       THEN Becomes(Pop(Machine))
       ELSE \E q \in Top(Machine).pending : Becomes(process_glob_entry(Machine, q))

\* the parse_toml, parse_yaml or parse_json call on top of the stack resolves
\* its next include or stores its root entries, in the order the map iterates
StructuredStep ==
    /\ stack # <<>>
    /\ Top(Machine).kind \in {"toml", "yaml", "json"}
    /\ \E names \in Orders(DOMAIN fs[Top(Machine).path].trees[Top(Machine).kind].root) :
          Becomes(parse_structured(Machine, names))

\* Config::set
Set(section, key, value) ==
    /\ stack = <<>>
    /\ values' = set(values, section, key, value)
    /\ result' = Outcome("set", "Ok")
    /\ hist' = [hist EXCEPT !.sets = @ + 1,
                            !.last = Append(@, <<section, key, value>>)]
    /\ UNCHANGED <<format, config_file_path, fs, stack, schema>>

\* Config::set_format
SetFormat(fmt) ==
    /\ stack = <<>>
    /\ format' = fmt
    /\ result' = Outcome("set_format", "Ok")
    /\ UNCHANGED <<values, config_file_path, fs, stack, schema, hist>>

\* Config::new on the same file system
Renew ==
    /\ stack = <<>>
    /\ values' = EmptyMap
    /\ format' = "Unknown"
    /\ config_file_path' = NoPath
    /\ result' = Outcome("new", "Ok")
    /\ UNCHANGED <<fs, stack, schema, hist>>

\* the key = value lines ini::write_ini writes for a section, keys being the
\* order its HashMap iterates in
RECURSIVE write_pairs(_, _)
write_pairs(section_values, keys) ==
    IF keys = <<>> THEN <<>>
    ELSE << keys[1] \o <<" ","="," ">> \o format_value(section_values[keys[1]]) >>
         \o write_pairs(section_values, Tail(keys))

\* the loop over config.values of ini::write_ini
RECURSIVE write_sections(_, _, _)
write_sections(vals, sections, keys) ==
    IF sections = <<>> THEN <<>>
    ELSE LET s == sections[1]
             part == IF s = DefaultSection /\ DOMAIN vals[s] = {} THEN <<>>
                     ELSE << <<>>, <<"[">> \o s \o <<"]">> >> \o write_pairs(vals[s], keys[s])
         IN  part \o write_sections(vals, Tail(sections), keys)

\* the file ini::write_ini writes (the trees of a file whose first line names
\* ini are never read)
write_ini(vals, sections, keys) ==
    [lines |-> << Shebang \o IniWord >> \o write_sections(vals, sections, keys),
     trees |-> [toml |-> NoTree, yaml |-> NoTree, json |-> NoTree],
     readable |-> TRUE]

\* the file toml::write_toml, yaml::write_yaml or json::write_json writes: the
\* first line, then the library's text of the root, which is the text the
\* same library reads back as that root
write_structured(vals, conv, sections) ==
    LET root == ObjectTree(build_root(EmptyMap, vals, sections))
        word == CASE conv = "toml" -> TomlWord [] conv = "yaml" -> YamlWord
                  [] conv = "json" -> JsonWord
    IN  [lines |-> << Shebang \o word >>,
         trees |-> [c \in {"toml", "yaml", "json"} |-> IF c = conv THEN root ELSE NoTree],
         readable |-> TRUE]

\* the orders the HashMaps of a store may iterate their keys in
KeyOrders(vals) ==
    { f \in [DOMAIN vals -> UNION { Orders(DOMAIN vals[s]) : s \in DOMAIN vals }] :
        \A s \in DOMAIN vals : f[s] \in Orders(DOMAIN vals[s]) }

\* Config::save_to_file
save_to_file(path) ==
    /\ stack = <<>>
    /\ IF format = "Unknown"
       THEN /\ result' = Outcome("save", "UnsupportedFormat")
            /\ UNCHANGED <<fs, hist>>
       ELSE /\ \E sections \in Orders(DOMAIN values), keys \in KeyOrders(values) :
                 fs' = Put(fs, path,
                           IF format = "Ini" THEN write_ini(values, sections, keys)
                           ELSE write_structured(values, ConverterOf(format), sections))
            /\ result' = Outcome("save", "Ok")
            /\ hist' = [hist EXCEPT !.saved = values]
    /\ UNCHANGED <<values, format, config_file_path, stack, schema>>


(***************************************************************************)
(* src/src/validation.rs.  An Option is a set, empty or of one element; a   *)
(* Result<(), E> is the sequence of its error: <<>> for Ok(()), <<e>> for  *)
(* Err(e).  The description of a field is documentation and is left out.  *)
(* A pattern is the set of the strings its regex matches, a custom         *)
(* function the set of the values it rejects.                              *)
(***************************************************************************)
None == {}

Some(x) == {x}

is_some(o) == o # {}

unwrap(o) == CHOOSE x \in o : TRUE

\* a ValidationError with its path (a section name for the section errors)
Error(kind, path) == [kind |-> kind, path |-> path]

\* ValueType::from(&ConfigValue)
ValueType_from(value) == value.t

\* FieldDefinition::new
FieldDefinition_new(value_type) ==
    [value_type |-> value_type, required |-> FALSE, default_value |-> None,
     constraints |-> <<>>]

\* FieldDefinition::required
required(def) == [def EXCEPT !.required = TRUE]

\* FieldDefinition::default
default(def, value) == [def EXCEPT !.default_value = Some(value)]

\* FieldDefinition::constraint
constraint(def, c) == [def EXCEPT !.constraints = Append(@, c)]

\* a FieldConstraint of a kind with nothing set; validate_fn is the predicate
\* of a Custom constraint: a function from the values it rejects to the
\* messages it rejects them with
NewConstraint(kind) ==
    [kind |-> kind, min |-> None, max |-> None, pattern |-> None,
     allowed_values |-> None, item_type |-> None, validate_fn |-> EmptyMap,
     description |-> <<>>]

\* FieldConstraint::string, integer, float, array
string == NewConstraint("String")

integer == NewConstraint("Integer")

float == NewConstraint("Float")

array == NewConstraint("Array")

\* FieldConstraint::custom
custom(validate_fn, description) ==
    [NewConstraint("Custom") EXCEPT !.validate_fn = validate_fn, !.description = description]

\* ValidationError::CustomConstraintFailed
CustomConstraintFailed(path, description, message) ==
    [kind |-> "CustomConstraintFailed", path |-> path, description |-> description,
     message |-> message]

\* FieldConstraint::min_length and max_length: strings and arrays only
min_length(c, min) == IF c.kind \in {"String", "Array"} THEN [c EXCEPT !.min = Some(min)] ELSE c

max_length(c, max) == IF c.kind \in {"String", "Array"} THEN [c EXCEPT !.max = Some(max)] ELSE c

\* FieldConstraint::pattern and allowed_string_values: strings only
pattern(c, matched) == IF c.kind = "String" THEN [c EXCEPT !.pattern = Some(matched)] ELSE c

allowed_string_values(c, allowed) ==
    IF c.kind = "String" THEN [c EXCEPT !.allowed_values = Some(allowed)] ELSE c

\* FieldConstraint::min_int, max_int and allowed_int_values: integers only
min_int(c, min) == IF c.kind = "Integer" THEN [c EXCEPT !.min = Some(min)] ELSE c

max_int(c, max) == IF c.kind = "Integer" THEN [c EXCEPT !.max = Some(max)] ELSE c

allowed_int_values(c, allowed) ==
    IF c.kind = "Integer" THEN [c EXCEPT !.allowed_values = Some(allowed)] ELSE c

\* FieldConstraint::min_float and max_float: floats only
min_float(c, min) == IF c.kind = "Float" THEN [c EXCEPT !.min = Some(min)] ELSE c

max_float(c, max) == IF c.kind = "Float" THEN [c EXCEPT !.max = Some(max)] ELSE c

\* FieldConstraint::item_type: arrays only
item_type(c, item_def) == IF c.kind = "Array" THEN [c EXCEPT !.item_type = Some(item_def)] ELSE c

\* the path of item i of an array: path[i], counted from 0
item_path(path, i) == path \o <<"[">> \o NatToString(i - 1) \o <<"]">>

RECURSIVE FieldDefinition_validate(_, _, _), FieldConstraint_validate(_, _, _),
          constraints_loop(_, _, _, _), items_loop(_, _, _, _)

\* a validate that lets an absent value pass, required or not
FieldDefinition_validate_optional(def, value, path) ==
    IF value = NoValue THEN <<>>
    ELSE IF def.value_type # "Any" /\ ValueType_from(value) # def.value_type
         THEN << Error("TypeMismatch", path) >>
    ELSE constraints_loop(def.constraints, 1, value, path)

\* a loop that runs no constraint
constraints_skipped(constraints, i, value, path) == <<>>

\* the loop over the items of an array in FieldConstraint::validate: the first
\* item that fails ends it
items_loop(item_def, arr, i, path) ==
    IF i > Len(arr) THEN <<>>
    ELSE LET r == FieldDefinition_validate(item_def, arr[i], item_path(path, i))
         IN  IF r # <<>> THEN r ELSE items_loop(item_def, arr, i + 1, path)

\* a FieldConstraint::validate that reports a value of another kind than the
\* constraint as a type mismatch
FieldConstraint_validate_per_constraint(c, value, path) ==
    CASE c.kind = "String" /\ value.t = "String" ->
            IF is_some(c.min) /\ Len(value.v) < unwrap(c.min) THEN << Error("StringTooShort", path) >>
            ELSE IF is_some(c.max) /\ Len(value.v) > unwrap(c.max)
                 THEN << Error("StringTooLong", path) >>
            ELSE IF is_some(c.pattern) /\ value.v \notin unwrap(c.pattern)
                 THEN << Error("PatternMismatch", path) >>
            ELSE IF is_some(c.allowed_values) /\ value.v \notin unwrap(c.allowed_values)
                 THEN << Error("InvalidValue", path) >>
            ELSE <<>>
      [] c.kind = "Integer" /\ value.t = "Integer" ->
            IF is_some(c.min) /\ value.v < unwrap(c.min) THEN << Error("IntegerTooSmall", path) >>
            ELSE IF is_some(c.max) /\ value.v > unwrap(c.max)
                 THEN << Error("IntegerTooLarge", path) >>
            ELSE IF is_some(c.allowed_values) /\ value.v \notin unwrap(c.allowed_values)
                 THEN << Error("InvalidInteger", path) >>
            ELSE <<>>
      [] c.kind = "Float" /\ value.t = "Float" ->
            IF is_some(c.min) /\ value.v < unwrap(c.min) THEN << Error("FloatTooSmall", path) >>
            ELSE IF is_some(c.max) /\ value.v > unwrap(c.max) THEN << Error("FloatTooLarge", path) >>
            ELSE <<>>
      [] c.kind = "Array" /\ value.t = "Array" ->
            IF is_some(c.min) /\ Len(value.v) < unwrap(c.min) THEN << Error("ArrayTooShort", path) >>
            ELSE IF is_some(c.max) /\ Len(value.v) > unwrap(c.max)
                 THEN << Error("ArrayTooLong", path) >>
            ELSE IF is_some(c.item_type) THEN items_loop(unwrap(c.item_type), value.v, 1, path)
            ELSE <<>>
      [] c.kind = "Custom" ->
            IF value \in DOMAIN c.validate_fn
            THEN << CustomConstraintFailed(path, c.description, c.validate_fn[value]) >>
            ELSE <<>>
      [] OTHER -> << Error("TypeMismatch", path) >>

\* FieldConstraint::validate: a constraint of another kind than the value passes
FieldConstraint_validate(c, value, path) ==
    CASE c.kind = "String" /\ value.t = "String" ->
            IF is_some(c.min) /\ Len(value.v) < unwrap(c.min) THEN << Error("StringTooShort", path) >>
            ELSE IF is_some(c.max) /\ Len(value.v) > unwrap(c.max)
                 THEN << Error("StringTooLong", path) >>
            ELSE IF is_some(c.pattern) /\ value.v \notin unwrap(c.pattern)
                 THEN << Error("PatternMismatch", path) >>
            ELSE IF is_some(c.allowed_values) /\ value.v \notin unwrap(c.allowed_values)
                 THEN << Error("InvalidValue", path) >>
            ELSE <<>>
      [] c.kind = "Integer" /\ value.t = "Integer" ->
            IF is_some(c.min) /\ value.v < unwrap(c.min) THEN << Error("IntegerTooSmall", path) >>
            ELSE IF is_some(c.max) /\ value.v > unwrap(c.max)
                 THEN << Error("IntegerTooLarge", path) >>
            ELSE IF is_some(c.allowed_values) /\ value.v \notin unwrap(c.allowed_values)
                 THEN << Error("InvalidInteger", path) >>
            ELSE <<>>
      [] c.kind = "Float" /\ value.t = "Float" ->
            IF is_some(c.min) /\ value.v < unwrap(c.min) THEN << Error("FloatTooSmall", path) >>
            ELSE IF is_some(c.max) /\ value.v > unwrap(c.max) THEN << Error("FloatTooLarge", path) >>
            ELSE <<>>
      [] c.kind = "Array" /\ value.t = "Array" ->
            IF is_some(c.min) /\ Len(value.v) < unwrap(c.min) THEN << Error("ArrayTooShort", path) >>
            ELSE IF is_some(c.max) /\ Len(value.v) > unwrap(c.max)
                 THEN << Error("ArrayTooLong", path) >>
            ELSE IF is_some(c.item_type) THEN items_loop(unwrap(c.item_type), value.v, 1, path)
            ELSE <<>>
      [] c.kind = "Custom" ->
            IF value \in DOMAIN c.validate_fn
            THEN << CustomConstraintFailed(path, c.description, c.validate_fn[value]) >>
            ELSE <<>>
      [] OTHER -> <<>>

\* the loop over the constraints in FieldDefinition::validate: the ? returns
\* the error of the first constraint that fails
constraints_loop(constraints, i, value, path) ==
    IF i > Len(constraints) THEN <<>>
    ELSE LET r == FieldConstraint_validate(constraints[i], value, path)
         IN  IF r # <<>> THEN r ELSE constraints_loop(constraints, i + 1, value, path)

\* FieldDefinition::validate; the value NoValue is None
FieldDefinition_validate(def, value, path) ==
    IF value = NoValue
    THEN IF def.required THEN << Error("MissingField", path) >> ELSE <<>>
    ELSE IF def.value_type # "Any" /\ ValueType_from(value) # def.value_type
         THEN << Error("TypeMismatch", path) >>
    ELSE constraints_loop(def.constraints, 1, value, path)

\* ValidationSchema::section: the section starts anew, with no field
section(sch, name) == [sch EXCEPT !.sections = Put(@, name, EmptyMap)]

\* ValidationSchema::required_section
required_section(sch, name) ==
    [section(sch, name) EXCEPT !.required_sections = @ \cup {name}]

\* ValidationSchema::field
field(sch, section_name, key, definition) ==
    LET s == IF section_name \notin DOMAIN sch.sections THEN section(sch, section_name)
             ELSE sch
    IN  [s EXCEPT !.sections = Put(@, section_name, Put(@[section_name], key, definition))]

\* ValidationSchema::allow_unknown_sections
allow_unknown_sections(sch, allow) == [sch EXCEPT !.allow_unknown_sections = allow]

\* ValidationSchema::allow_unknown_keys
allow_unknown_keys(sch, allow) == [sch EXCEPT !.allow_unknown_keys = allow]

\* format!("{}.{}", section_name, field_name)
field_path(section_name, field_name) == section_name \o <<".">> \o field_name

\* the errors ValidationSchema::validate pushes for the fields of a section of
\* the store that the schema has
field_errors(sch, vals, s) ==
    UNION { { r[i] : i \in 1..Len(r) } :
            r \in { FieldDefinition_validate(sch.sections[s][k], get(vals, s, k),
                                             field_path(s, k)) :
                    k \in DOMAIN sch.sections[s] } }

\* key_errors as it would be if it did not look at allow_unknown_keys
key_errors_always(sch, vals, s) ==
    { Error("UnknownKey", field_path(s, k)) : k \in DOMAIN vals[s] \ DOMAIN sch.sections[s] }

\* the errors it pushes for the keys of such a section that the schema lacks
key_errors(sch, vals, s) ==
    IF sch.allow_unknown_keys THEN {}
    ELSE { Error("UnknownKey", field_path(s, k)) : k \in DOMAIN vals[s] \ DOMAIN sch.sections[s] }

\* what the loop over config.values pushes for a section: the fields and the
\* keys are iterated in HashMap order (a field or key that pushes nothing has
\* no place in the result, so only the others are ordered)
section_runs(sch, vals, s) ==
    IF s \notin DOMAIN sch.sections
    THEN IF sch.allow_unknown_sections THEN { <<>> }
         ELSE { << Error("UnknownSection", s) >> }
    ELSE { f \o k : f \in Orders(field_errors(sch, vals, s)),
                    k \in Orders(key_errors(sch, vals, s)) }

\* the runs of the sections in the order sections, joined
RECURSIVE join_runs(_, _)
join_runs(sections, run) ==
    IF sections = <<>> THEN <<>>
    ELSE run[sections[1]] \o join_runs(Tail(sections), run)

\* validate as it would be if every section of the schema were required
ValidationSchema_validate_all_required(sch, vals) ==
    LET missing == { Error("MissingSection", s) : s \in DOMAIN sch.sections \ DOMAIN vals }
        loud == { s \in DOMAIN vals : section_runs(sch, vals, s) # { <<>> } }
        runs == { run \in [loud -> UNION { section_runs(sch, vals, s) : s \in loud }] :
                    \A s \in loud : run[s] \in section_runs(sch, vals, s) }
    IN  { m \o join_runs(sections, run) :
            m \in Orders(missing), sections \in Orders(loud), run \in runs }

\* ValidationSchema::validate: every error vector it can build (empty: Ok(())),
\* the HashSet of required sections and the HashMaps being iterated in any order
ValidationSchema_validate(sch, vals) ==
    LET missing == { Error("MissingSection", s) : s \in sch.required_sections \ DOMAIN vals }
        loud == { s \in DOMAIN vals : section_runs(sch, vals, s) # { <<>> } }
        runs == { run \in [loud -> UNION { section_runs(sch, vals, s) : s \in loud }] :
                    \A s \in loud : run[s] \in section_runs(sch, vals, s) }
    IN  { m \o join_runs(sections, run) :
            m \in Orders(missing), sections \in Orders(loud), run \in runs }

\* the (section, field) pairs of a schema
Fields(sch) ==
    { p \in (DOMAIN sch.sections) \X UNION { DOMAIN sch.sections[s] : s \in DOMAIN sch.sections } :
        p[2] \in DOMAIN sch.sections[p[1]] }

\* the fields in the order of the two nested loops of apply_defaults: the
\* fields of a section come together (the sets of the loop are on distinct
\* keys, so which order the HashMaps give does not show in the store)
RECURSIVE FieldOrder(_, _)
FieldOrder(sch, sections) ==
    IF sections = <<>> THEN <<>>
    ELSE LET keys == SomeOrder(DOMAIN sch.sections[sections[1]])
         IN  [i \in 1..Len(keys) |-> << sections[1], keys[i] >>]
             \o FieldOrder(sch, Tail(sections))

\* an apply_defaults that returns after the first default it sets
RECURSIVE apply_defaults_first_only(_, _, _)
apply_defaults_first_only(sch, vals, order) ==
    IF order = <<>> THEN vals
    ELSE LET s == order[1][1]
             k == order[1][2]
             def == sch.sections[s][k]
         IN  IF is_some(def.default_value) /\ get(vals, s, k) = NoValue
             THEN set(vals, s, k, unwrap(def.default_value))
             ELSE apply_defaults_first_only(sch, vals, Tail(order))

\* an apply_defaults that does not look whether the key is present
RECURSIVE apply_defaults_overwrites(_, _, _)
apply_defaults_overwrites(sch, vals, order) ==
    IF order = <<>> THEN vals
    ELSE LET s == order[1][1]
             k == order[1][2]
             def == sch.sections[s][k]
         IN  apply_defaults_overwrites(
                 sch, IF is_some(def.default_value) THEN set(vals, s, k, unwrap(def.default_value))
                      ELSE vals, Tail(order))

\* an apply_defaults that makes the section of every field it looks at
\* present in the store, default or not
RECURSIVE apply_defaults_opens_sections(_, _, _)
apply_defaults_opens_sections(sch, vals, order) ==
    IF order = <<>> THEN vals
    ELSE LET s == order[1][1]
             k == order[1][2]
             def == sch.sections[s][k]
         IN  apply_defaults_opens_sections(
                 sch, IF is_some(def.default_value) /\ get(vals, s, k) = NoValue
                      THEN set(vals, s, k, unwrap(def.default_value))
                      ELSE IF s \in DOMAIN vals THEN vals ELSE Put(vals, s, EmptyMap),
                 Tail(order))

\* ValidationSchema::apply_defaults, the fields taken in the order order
RECURSIVE apply_defaults(_, _, _)
apply_defaults(sch, vals, order) ==
    IF order = <<>> THEN vals
    ELSE LET s == order[1][1]
             k == order[1][2]
             def == sch.sections[s][k]
         IN  apply_defaults(
                 sch, IF is_some(def.default_value) /\ get(vals, s, k) = NoValue
                      THEN set(vals, s, k, unwrap(def.default_value))
                      ELSE vals, Tail(order))

\* what validate returns: Ok(()) or Err(ValidationErrors(errors))
Validated(op, errors) ==
    [op |-> op, status |-> IF errors = <<>> THEN "Ok" ELSE "ValidationErrors",
     errors |-> errors]

\* ValidationExt::validate
Validate ==
    /\ stack = <<>>
    /\ \E errors \in ValidationSchema_validate(schema, values) :
          result' = Validated("validate", errors)
    /\ hist' = [hist EXCEPT !.before = Before]
    /\ UNCHANGED <<values, format, config_file_path, fs, stack, schema>>

\* ValidationExt::apply_defaults
ApplyDefaults ==
    /\ stack = <<>>
    /\ values' = apply_defaults(schema, values,
                                FieldOrder(schema, SomeOrder(DOMAIN schema.sections)))
    /\ result' = Outcome("apply_defaults", "Ok")
    /\ hist' = [hist EXCEPT !.before = Before]
    /\ UNCHANGED <<format, config_file_path, fs, stack, schema>>

\* ValidationExt::validate_and_apply_defaults
ValidateAndApplyDefaults ==
    /\ stack = <<>>
    /\ values' = apply_defaults(schema, values,
                                FieldOrder(schema, SomeOrder(DOMAIN schema.sections)))
    /\ \E errors \in ValidationSchema_validate(schema, values') :
          result' = Validated("validate_and_apply_defaults", errors)
    /\ hist' = [hist EXCEPT !.before = Before]
    /\ UNCHANGED <<format, config_file_path, fs, stack, schema>>

(***************************************************************************)
(* Specification SpecSet: a new store and set calls                        *)
(***************************************************************************)
MaxSets == 3

SetSections == { DefaultSection, <<"s","1">> }

SetKeys == { <<"k","1">>, <<"k","2">> }

SetValues == { VString(<<"a">>), VInteger(1), VFloat(15), VBoolean(TRUE) }

EmptyFs == [q \in {} |-> NoTree]

InitSet == New(EmptyFs)

SetCall ==
    /\ hist.sets < MaxSets
    /\ \E s \in SetSections, k \in SetKeys, v \in SetValues : Set(s, k, v)

NextSet == SetCall

SpecSet == InitSet /\ [][NextSet]_vars

\* the value of the most recent call set(s, k, _) in a sequence of calls
RECURSIVE LastSet(_, _, _)
LastSet(calls, s, k) ==
    IF calls = <<>> THEN NoValue
    ELSE IF calls[Len(calls)][1] = s /\ calls[Len(calls)][2] = k
         THEN calls[Len(calls)][3]
         ELSE LastSet(SubSeq(calls, 1, Len(calls) - 1), s, k)

\* C5: after any sequence of set calls, get(section, key) is the value of the
\* most recent set for that pair and absent when the pair was never set; so a
\* set on one pair leaves the value read for every other pair as it was
C5_SetIsUpsert ==
    \A s \in SetSections, k \in SetKeys : get(values, s, k) = LastSet(hist.last, s, k)

\* C5: a set changes no pair but its own
C5_witness ==
    /\ Len(hist.last) = MaxSets
    /\ Cardinality(Pairs(values)) = 2
    /\ \E i, j \in 1..Len(hist.last) :
          /\ i < j
          /\ hist.last[i][1] = hist.last[j][1]
          /\ hist.last[i][2] = hist.last[j][2]
          /\ hist.last[i][3] # hist.last[j][3]


(***************************************************************************)
(* Specification SpecDetect: loads of top-level files whose first lines    *)
(* and extensions differ (tests/config_tests.rs test_detect_format,        *)
(* tests/integration_tests.rs test_error_handling)                         *)
(***************************************************************************)
MaxLoads == 2

\* a file: its lines and what the three parser libraries make of its text
\* (of the text after the first line when that line starts with #!config/)
File(lines, toml, yaml, json) ==
    [lines |-> lines, trees |-> [toml |-> toml, yaml |-> yaml, json |-> json],
     readable |-> TRUE]

\* a path that exists and that fs::read_to_string cannot read: a directory
Directory ==
    [lines |-> <<>>, trees |-> [toml |-> NoTree, yaml |-> NoTree, json |-> NoTree],
     readable |-> FALSE]

\* the path of a file of the directory /d
InDir(name) == << <<>>, <<"d">>, name >>

\* a document whose root is not a table
ScalarTree == [kind |-> "Scalar", root |-> EmptyMap]

\* the document { k: 2 }
K2Tree == ObjectTree([n \in { <<"k">> } |-> VInteger(2)])

\* the document { s: { k: 2 } }
SK2Tree == ObjectTree([n \in { <<"s">> } |-> VTable([m \in { <<"k">> } |-> VInteger(2)])])

DetectFs ==
    LET F == [
          a |-> File(<< <<"#","!","c","o","n","f","i","g","/","i","n","i">>, <<"[","s","]">>, <<"k"," ","="," ","2">> >>, SK2Tree, NoTree, NoTree),
          b |-> File(<< <<"#","!","c","o","n","f","i","g","/","T","O","M","L">>, <<"k"," ","="," ","2">> >>, K2Tree, ScalarTree, NoTree),
          c |-> File(<< <<"#","!","c","o","n","f","i","g","/"," ","y","m","l"," ">>, <<"k",":"," ","2">> >>, NoTree, K2Tree, NoTree),
          e |-> File(<< <<"#","!","c","o","n","f","i","g","/","j","s","o","n">>, <<"{","\"","k","\"",":"," ","2","}">> >>, NoTree, K2Tree, K2Tree),
          x |-> File(<< <<"#","!","c","o","n","f","i","g","/","x","m","l">>, <<"<","c","/",">">> >>, NoTree, ScalarTree, NoTree),
          r |-> File(<< <<"#","!","c","o","n","f","i","g","/","#","!","c","o","n","f","i","g","/","i","n","i">>, <<"k"," ","="," ","2">> >>, K2Tree, ScalarTree, NoTree),
          n |-> File(<< <<"k"," ","="," ","2">> >>, K2Tree, ScalarTree, NoTree),
          m |-> File(<< <<"{","\"","k","\"",":"," ","2","}">> >>, NoTree, K2Tree, K2Tree),
          z |-> File(<< >>, ObjectTree(EmptyMap), ScalarTree, NoTree),
          u |-> File(<< <<"#","!","c","o","n","f","i","g","/">>, <<"k"," ","="," ","2">> >>, K2Tree, ScalarTree, NoTree),
          w |-> File(<< <<" ","#","!","c","o","n","f","i","g","/","t","o","m","l">>, <<"k"," ","="," ","2">> >>, NoTree, NoTree, NoTree),
          y |-> File(<< <<"#","!","c","o","n","f","i","g","/","Y","a","m","l">>, <<"k",":"," ","2">> >>, NoTree, K2Tree, NoTree) ]
        P == [
          a |-> InDir(<<"a",".","c","o","n","f">>), b |-> InDir(<<"b",".","c","o","n","f">>), c |-> InDir(<<"c",".","c","o","n","f">>),
          e |-> InDir(<<"e",".","c","o","n","f">>), x |-> InDir(<<"x",".","c","o","n","f">>), r |-> InDir(<<"r",".","c","o","n","f">>),
          n |-> InDir(<<"n",".","t","o","m","l">>), m |-> InDir(<<"m",".","j","s","o","n">>), z |-> InDir(<<"z",".","c","o","n","f">>),
          u |-> InDir(<<"u",".","c","o","n","f">>), w |-> InDir(<<"w",".","y","a","m","l">>), y |-> InDir(<<"y",".","i","n","i">>) ]
    IN  [q \in { P[i] : i \in DOMAIN P } |-> F[CHOOSE i \in DOMAIN P : P[i] = q]]

\* a path no file has
MissingPath == InDir(<<"q",".","c","o","n","f">>)

InitDetect == New(DetectFs)

LoadAny ==
    /\ hist.loads < MaxLoads
    /\ \E q \in DOMAIN fs \cup {MissingPath} : load_from_file(q)

NextDetect == LoadAny \/ ParseIniStep \/ StructuredStep

SpecDetect == InitDetect /\ [][NextDetect]_vars

\* the format a remainder names, by the table of the claim
NamedFormat(name) ==
    CASE name = <<"i","n","i">> -> "Ini"
      [] name = <<"t","o","m","l">> -> "Toml"
      [] name \in { <<"y","a","m","l">>, <<"y","m","l">> } -> "Yaml"
      [] name = <<"j","s","o","n">> -> "Json"
      [] OTHER -> "Unknown"

\* the last operation is a load_from_file that could read its file
Loaded == result.op = "load" /\ hist.top \in DOMAIN fs

\* C3: a load of a file whose first line starts with #!config/ sets the format
\* from the rest of that line, trimmed and lower-cased, and fails with an
\* unsupported-format error when the rest names no format; a file without that
\* prefix is parsed as line-format whatever its extension
C3_TopLevelDetection ==
    Loaded =>
        LET line == first_line(fs[hist.top].lines)
            name == to_lowercase(trim(Drop(line, Len(Shebang))))
        IN  IF starts_with(line, Shebang)
            THEN IF NamedFormat(name) = "Unknown"
                 THEN result.status = "UnsupportedFormat"
                 ELSE /\ format = NamedFormat(name)
                      /\ result.status # "UnsupportedFormat"
            ELSE /\ format = "Ini"
                 /\ hist.log # <<>> /\ hist.log[1].conv = "ini"


(***************************************************************************)
(* Specification SpecInclude: a main file of each format that includes one *)
(* file, by its path or by a glob pattern; the included files differ in    *)
(* first line and extension                                                *)
(***************************************************************************)
\* the document { name: 1 }
OneTree(name) == ObjectTree([n \in {name} |-> VInteger(1)])

\* the files a main file may include
LeafFs ==
    LET F == [
          t  |-> File(<< <<"#","!","c","o","n","f","i","g","/","t","o","m","l">>, <<"k","t"," ","="," ","1">> >>, OneTree(<<"k","t">>), ScalarTree, NoTree),
          j  |-> File(<< <<"{","\"","k","j","\"",":"," ","1","}">> >>, NoTree, OneTree(<<"k","j">>), OneTree(<<"k","j">>)),
          y  |-> File(<< <<"k","y",":"," ","1">> >>, NoTree, OneTree(<<"k","y">>), NoTree),
          i  |-> File(<< <<"k","i"," ","="," ","1">> >>, OneTree(<<"k","i">>), ScalarTree, NoTree),
          o  |-> File(<< <<"k","o"," ","="," ","1">> >>, OneTree(<<"k","o">>), ScalarTree, NoTree),
          p  |-> File(<< <<"k","p"," ","="," ","1">> >>, OneTree(<<"k","p">>), ScalarTree, NoTree),
          sj |-> File(<< <<"#","!","c","o","n","f","i","g","/","j","s","o","n">>, <<"{","\"","k","j","\"",":"," ","1","}">> >>, NoTree, OneTree(<<"k","j">>),
                      OneTree(<<"k","j">>)),
          sy |-> File(<< <<"#","!","c","o","n","f","i","g","/","y","a","m","l">>, <<"k","y",":"," ","1">> >>, NoTree, OneTree(<<"k","y">>), NoTree),
          si |-> File(<< <<"#","!","c","o","n","f","i","g","/","i","n","i">>, <<"k","i"," ","="," ","1">> >>, OneTree(<<"k","i">>), ScalarTree, NoTree) ]
        P == [
          t |-> InDir(<<"t",".","c","o","n","f">>), j |-> InDir(<<"j",".","j","s","o","n">>), y |-> InDir(<<"y",".","y","m","l">>),
          i |-> InDir(<<"i",".","i","n","i">>), o |-> InDir(<<"o",".","t","o","m","l">>), p |-> InDir(<<"p",".","c","o","n","f">>),
          sj |-> InDir(<<"s","j",".","c","o","n","f">>), sy |-> InDir(<<"s","y",".","c","o","n","f">>), si |-> InDir(<<"s","i",".","t","o","m","l">>) ]
    IN  [q \in { P[x] : x \in DOMAIN P } |-> F[CHOOSE x \in DOMAIN P : P[x] = q]]

\* what a main file may name in its include: a file, or a pattern matching one
\* file or two
IncludePaths ==
    { <<"t",".","c","o","n","f">>, <<"j",".","j","s","o","n">>, <<"y",".","y","m","l">>, <<"i",".","i","n","i">>, <<"o",".","t","o","m","l">>, <<"p",".","c","o","n","f">>,
      <<"s","j",".","c","o","n","f">>, <<"s","y",".","c","o","n","f">>, <<"s","i",".","t","o","m","l">>, <<".","/","p",".","c","o","n","f">>, <<".",".","/","d","/","i",".","i","n","i">>,
      <<"t",".","*">>, <<"j",".","*">>, <<"y",".","*">>, <<"i",".","*">>, <<"o",".","*">>, <<"p",".","c","*">>, <<"s","j",".","*">>, <<"s","y",".","*">>,
      <<"s","i","*">>, <<"s","*",".","c","o","n","f">>, <<"*",".","i","n","i">> }

MainPath == InDir(<<"m","a","i","n">>)

\* the document { include: "inc" }
IncludeTree(inc) == ObjectTree([n \in {IncludeWord} |-> VString(inc)])

\* the main file of a format that includes inc
MainFile(fmt, inc) ==
    CASE fmt = "ini" ->
            File(<< <<"#","!","c","o","n","f","i","g","/","i","n","i">>, <<"i","n","c","l","u","d","e"," ","="," ">> \o inc >>, NoTree, NoTree, NoTree)
      [] fmt = "toml" ->
            File(<< <<"#","!","c","o","n","f","i","g","/","t","o","m","l">>, <<"i","n","c","l","u","d","e"," ","="," ","\"">> \o inc \o <<"\"">> >>,
                 IncludeTree(inc), NoTree, NoTree)
      [] fmt = "yaml" ->
            File(<< <<"#","!","c","o","n","f","i","g","/","y","a","m","l">>, <<"i","n","c","l","u","d","e",":"," ","\"">> \o inc \o <<"\"">> >>,
                 NoTree, IncludeTree(inc), NoTree)
      [] fmt = "json" ->
            File(<< <<"#","!","c","o","n","f","i","g","/","j","s","o","n">>, <<"{","\"","i","n","c","l","u","d","e","\"",":"," ","\"">> \o inc \o <<"\"","}">> >>,
                 NoTree, IncludeTree(inc), IncludeTree(inc))

InitInclude ==
    \E fmt \in {"ini", "toml", "yaml", "json"}, inc \in IncludePaths :
        New([q \in DOMAIN LeafFs \cup {MainPath} |->
                IF q = MainPath THEN MainFile(fmt, inc) ELSE LeafFs[q]])

LoadMain ==
    /\ hist.loads < MaxLoads
    /\ load_from_file(MainPath)

NextInclude == LoadMain \/ ParseIniStep \/ GlobStep \/ StructuredStep

SpecInclude == InitInclude /\ [][NextInclude]_vars

\* the converter the claim assigns to an included file: the one its first line
\* names, else the one of its extension, else the one of the including file
ClaimedConverter(path, by) ==
    LET line == first_line(fs[path].lines)
        named == NamedFormat(to_lowercase(trim(Drop(line, Len(Shebang)))))
        ext == NamedFormat(extension(path))
    IN  IF starts_with(line, Shebang) /\ named # "Unknown" THEN ConverterOf(named)
        ELSE IF ext # "Unknown" THEN ConverterOf(ext)
        ELSE by

\* C2: every included file, reached by a path or by a glob match and whatever
\* the format of the including file, is parsed by the converter its
\* #!config/ line names, else by the one its extension names, else by the
\* converter of the including file
C2_IncludedFormat ==
    /\ \A i \in 2..Len(hist.log) :
          hist.log[i].conv = ClaimedConverter(hist.log[i].path, hist.log[i].by)
    /\ result.status # "UnsupportedFormat"


(***************************************************************************)
(* Specification SpecMerge: a line-format main file assigns s.k1 and s.k2  *)
(* and then includes a line-format file that assigns s.k1 and s.k3         *)
(***************************************************************************)
\* the value texts of the two files
MergeTexts == { <<"\"","x"," ","y","\"">>, <<"1","0","0">>, <<"t","r","u","e">> }

OverPath == InDir(<<"o",".","c","o","n","f">>)

\* how the main file names the included one
MergeIncludes == { <<"o",".","c","o","n","f">>, <<".","/","o",".","c","o","n","f">>, <<"o",".","*">> }

MergeMain(head, a, b, inc) ==
    File(head \o << <<"[","s","]">>, <<"k","1"," ","="," ">> \o a, <<"k","2","=">> \o b \o <<" ","#"," ","m","a","i","n">>,
                    <<"i","n","c","l","u","d","e"," ","="," ">> \o inc, <<"[","t","]">> >>, NoTree, NoTree, NoTree)

MergeOver(head, c, d) ==
    File(head \o << <<"[","s","]">>, <<"k","1"," ","="," ">> \o c, <<"k","3"," ","="," ">> \o d >>, NoTree, NoTree, NoTree)

InitMerge ==
    \E a, b, c, d \in MergeTexts, inc \in MergeIncludes,
       head \in { <<>>, << <<"#","!","c","o","n","f","i","g","/","i","n","i">> >> } :
        New([q \in {MainPath, OverPath} |->
                IF q = MainPath THEN MergeMain(head, a, b, inc) ELSE MergeOver(head, c, d)])

NextMerge == LoadMain \/ ParseIniStep \/ GlobStep

SpecMerge == InitMerge /\ [][NextMerge]_vars

\* the value text of the last line of a file that assigns key
RECURSIVE Assigned(_, _)
Assigned(lines, key) ==
    LET line == strip_comments(lines[Len(lines)])
    IN  IF is_kv_line(line) /\ kv_key(line) = key THEN kv_value(line)
        ELSE Assigned(SubSeq(lines, 1, Len(lines) - 1), key)

MainLoaded == result = Outcome("load", "Ok") /\ hist.top = MainPath

\* C1: after the load of the main file succeeds, s.k1 holds the included
\* file's value, s.k2 the main file's value, and s.k3 is present with the
\* included file's value
C1_MergeOverride ==
    MainLoaded =>
        /\ get(values, <<"s">>, <<"k","1">>) = parse_value(Assigned(fs[OverPath].lines, <<"k","1">>))
        /\ get(values, <<"s">>, <<"k","2">>) = parse_value(Assigned(fs[MainPath].lines, <<"k","2">>))
        /\ get(values, <<"s">>, <<"k","3">>) # NoValue
        /\ get(values, <<"s">>, <<"k","3">>) = parse_value(Assigned(fs[OverPath].lines, <<"k","3">>))

\* C1: a load has succeeded in which the included file changed s.k1
C1_witness ==
    /\ MainLoaded
    /\ Len(hist.log) = 2 /\ hist.log[2].path = OverPath
    /\ get(values, <<"s">>, <<"k","1">>) # parse_value(Assigned(fs[MainPath].lines, <<"k","1">>))
    /\ get(values, <<"s">>, <<"k","2">>) = VInteger(100)


(***************************************************************************)
(* Specification SpecRoundTrip: a store built by set calls is saved in one *)
(* of the formats and loaded again into a new store                        *)
(***************************************************************************)
MaxRoundSets == 2

RoundKeys == { <<"k","1">>, <<"s","1">> }

RoundValues ==
    { VString(<<"a"," ","b">>), VInteger(1), VInteger(42), VFloat(20), VFloat(15), VBoolean(FALSE) }

OutPath == InDir(<<"o","u","t">>)

SetRound ==
    /\ hist.sets < MaxRoundSets
    /\ fs = EmptyFs
    /\ \E s \in SetSections, k \in RoundKeys, v \in RoundValues : Set(s, k, v)

FormatCall ==
    /\ format = "Unknown"
    /\ fs = EmptyFs
    /\ \E fmt \in {"Ini", "Toml", "Yaml", "Json"} : SetFormat(fmt)

SaveCall ==
    /\ fs = EmptyFs
    /\ hist.sets > 0
    /\ save_to_file(OutPath)

NewCall ==
    /\ result = Outcome("save", "Ok")
    /\ Renew

LoadSaved ==
    /\ result.op = "new"
    /\ OutPath \in DOMAIN fs
    /\ load_from_file(OutPath)

NextRoundTrip ==
    SetRound \/ FormatCall \/ SaveCall \/ NewCall \/ LoadSaved \/ ParseIniStep \/ StructuredStep

SpecRoundTrip == InitSet /\ [][NextRoundTrip]_vars

\* the load of the saved file into a new store is over
Reloaded ==
    /\ result.op = "load" /\ stack = <<>> /\ hist.top = OutPath
    /\ hist.before.values = EmptyMap

\* C4: after a store built by set calls with String, Integer, Float or Boolean
\* values is saved in a format and loaded into a new store, every pair that
\* was set reads as the value that was set
C4_RoundTrip ==
    Reloaded =>
        \A s \in SetSections, k \in RoundKeys :
            get(values, s, k) = LastSet(hist.last, s, k)


(***************************************************************************)
(* Specification SpecVal: a schema, set calls on a new store, and the      *)
(* operations of ValidationExt                                             *)
(***************************************************************************)
MaxValSets == 2

ValKeys == { <<"k","1">>, <<"k","2">> }

ValValues == { VInteger(5), VString(<<"a","b">>) }

\* field definitions as a program builds them
IntTwo ==
    constraint(constraint(required(FieldDefinition_new("Integer")), min_int(integer, 10)),
               allowed_int_values(integer, {15, 25}))

StrReq == constraint(required(FieldDefinition_new("String")), min_length(string, 3))

IntDef ==
    default(constraint(required(FieldDefinition_new("Integer")), min_int(integer, 10)),
            VInteger(12))

AnyDef == default(FieldDefinition_new("Any"), VString(<<"d">>))

IntMax == constraint(FieldDefinition_new("Integer"), max_int(integer, 4))

\* the schemas of the specification
SchemaA ==
    field(field(field(NewSchema, <<"s","1">>, <<"k","1">>, IntTwo), <<"s","1">>, <<"k","2">>, StrReq),
          <<"s","2">>, <<"k","1">>, IntDef)

SchemaB ==
    field(field(field(field(NewSchema, <<"s","1">>, <<"k","1">>, IntMax), <<"s","1">>, <<"k","2">>, StrReq),
                <<"s","2">>, <<"k","1">>, StrReq), <<"s","2">>, <<"k","2">>, AnyDef)

SchemaC ==
    allow_unknown_keys(
        allow_unknown_sections(
            field(field(required_section(NewSchema, <<"s","2">>), <<"s","1">>, <<"k","1">>, IntDef),
                  <<"s","2">>, <<"k","2">>, AnyDef), FALSE), FALSE)

SchemaD == allow_unknown_sections(field(NewSchema, <<"s","1">>, <<"k","1">>, IntTwo), FALSE)

InitVal ==
    /\ values = EmptyMap
    /\ format = "Unknown"
    /\ config_file_path = NoPath
    /\ fs = EmptyFs
    /\ stack = <<>>
    /\ result = Outcome("new", "Ok")
    /\ schema \in {SchemaA, SchemaB, SchemaC, SchemaD}
    /\ hist = NewHist

SetVal ==
    /\ hist.sets < MaxValSets
    /\ \E s \in { <<"s","1">>, <<"s","2">> }, k \in ValKeys, v \in ValValues : Set(s, k, v)

NextVal == SetVal \/ Validate \/ ApplyDefaults \/ ValidateAndApplyDefaults

SpecVal == InitVal /\ [][NextVal]_vars


\* the definition of a field of the schema
Def(p) == schema.sections[p[1]][p[2]]

\* the value the store holds for a pair
Held(p) == get(values, p[1], p[2])

\* the entries of the last validation that carry a path
EntriesAt(path) == { i \in 1..Len(result.errors) : result.errors[i].path = path }

\* a validation has returned
ValidateReturned == result.op \in {"validate", "validate_and_apply_defaults"}

\* a value breaks a bound (a minimum or a maximum) of a constraint
BreaksBound(c, value) ==
    \/ /\ c.kind \in {"Integer", "Float"} /\ value.t = c.kind
       /\ \/ is_some(c.min) /\ value.v < unwrap(c.min)
          \/ is_some(c.max) /\ value.v > unwrap(c.max)
    \/ /\ c.kind \in {"String", "Array"} /\ value.t = c.kind
       /\ \/ is_some(c.min) /\ Len(value.v) < unwrap(c.min)
          \/ is_some(c.max) /\ Len(value.v) > unwrap(c.max)

\* a value violates a constraint (of a scalar kind)
Violates(c, value) ==
    \/ BreaksBound(c, value)
    \/ /\ c.kind \in {"Integer", "String"} /\ value.t = c.kind
       /\ \/ is_some(c.allowed_values) /\ value.v \notin unwrap(c.allowed_values)
          \/ is_some(c.pattern) /\ value.v \notin unwrap(c.pattern)
    \/ c.kind = "Custom" /\ value \in DOMAIN c.validate_fn

\* the constraints of a field that a value violates
Violated(def, value) == { i \in 1..Len(def.constraints) : Violates(def.constraints[i], value) }

\* a field of the schema holds a value of its declared type
WellTyped(p) == Held(p) # NoValue /\ Def(p).value_type \in {"Any", Held(p).t}

\* C6: for a present value of the declared type, each violated constraint of
\* the field contributes its own entry: a value violating k constraints yields
\* k entries for the field
C6_NoShortCircuit ==
    ValidateReturned =>
        \A p \in Fields(schema) :
            WellTyped(p) =>
                Cardinality(EntriesAt(field_path(p[1], p[2])))
                    = Cardinality(Violated(Def(p), Held(p)))

\* the required fields of the schema that the store lacks
MissingFields == { p \in Fields(schema) : Def(p).required /\ Held(p) = NoValue }

\* the fields whose value breaks one bound and violates nothing else
BoundFields ==
    { p \in Fields(schema) :
        /\ WellTyped(p)
        /\ Cardinality(Violated(Def(p), Held(p))) = 1
        /\ \A i \in Violated(Def(p), Held(p)) : BreaksBound(Def(p).constraints[i], Held(p)) }

\* the store has no other fault than its missing fields and its broken bounds
NoOtherFault ==
    /\ schema.required_sections \subseteq DOMAIN values
    /\ schema.allow_unknown_sections \/ DOMAIN values \subseteq DOMAIN schema.sections
    /\ schema.allow_unknown_keys
         \/ \A s \in DOMAIN values \cap DOMAIN schema.sections :
               DOMAIN values[s] \subseteq DOMAIN schema.sections[s]
    /\ \A p \in Fields(schema) :
          Held(p) # NoValue => WellTyped(p) /\ (Violated(Def(p), Held(p)) = {} \/ p \in BoundFields)

BoundKinds ==
    {"IntegerTooSmall", "IntegerTooLarge", "FloatTooSmall", "FloatTooLarge",
     "StringTooShort", "StringTooLong", "ArrayTooShort", "ArrayTooLong"}

\* the three entries of the aggregation: two missing fields and one bound
ThreeEntries ==
    /\ result.status = "ValidationErrors"
    /\ Len(result.errors) = 3
    /\ \A p \in MissingFields :
          \E i \in 1..3 : result.errors[i] = Error("MissingField", field_path(p[1], p[2]))
    /\ \A p \in BoundFields :
          \E i \in 1..3 : /\ result.errors[i].kind \in BoundKinds
                          /\ result.errors[i].path = field_path(p[1], p[2])

TwoMissingOneBound ==
    /\ result.op = "validate"
    /\ Cardinality(MissingFields) = 2
    /\ Cardinality(BoundFields) = 1
    /\ NoOtherFault

\* C7 as stated: a store missing two required fields and holding one value
\* that breaks a bound gets exactly three entries, each with its path
C7_Aggregation == TwoMissingOneBound => ThreeEntries

\* C7 amended: so it is when the sections of the two missing fields are
\* present in the store
C7_AggregationPresentSections ==
    (TwoMissingOneBound /\ \A p \in MissingFields : p[1] \in DOMAIN values) => ThreeEntries

\* C7: the validation of such a store has returned
C7_witness ==
    /\ TwoMissingOneBound
    /\ \A p \in MissingFields : p[1] \in DOMAIN values
    /\ \E p, q \in MissingFields : p[1] # q[1]


\* a validation has returned that ran right after apply_defaults
AfterDefaults ==
    \/ result.op = "validate_and_apply_defaults"
    \/ result.op = "validate" /\ hist.before.op = "apply_defaults"

\* the last validation has an entry for the missing field p
ReportsMissing(p) ==
    \E i \in 1..Len(result.errors) :
        result.errors[i] = Error("MissingField", field_path(p[1], p[2]))

\* validate_and_apply_defaults has given what apply_defaults and then validate give
AppliedThenValidated ==
    result.op = "validate_and_apply_defaults" =>
        /\ values = apply_defaults(schema, hist.before.values,
                                   FieldOrder(schema, SomeOrder(DOMAIN schema.sections)))
        /\ result.errors \in ValidationSchema_validate(schema, values)
        /\ \A p \in Fields(schema) :
              is_some(Def(p).default_value) =>
                  Held(p) = IF get(hist.before.values, p[1], p[2]) = NoValue
                            THEN unwrap(Def(p).default_value)
                            ELSE get(hist.before.values, p[1], p[2])

\* C8 as stated: after apply_defaults, validate fails for every required field
\* that is absent and has no default, reports no missing field for a required
\* field with a default, and validate_and_apply_defaults is apply_defaults
\* followed by validate
C8_DefaultsThenValidate ==
    AfterDefaults =>
        /\ \A p \in Fields(schema) :
              Def(p).required =>
                  /\ (Def(p).default_value = None /\ Held(p) = NoValue)
                        => result.status = "ValidationErrors"
                  /\ is_some(Def(p).default_value) => ~ReportsMissing(p)
        /\ AppliedThenValidated

\* C8 amended: the missing-field error is reported for every such field whose
\* section is present in the store
C8_DefaultsThenValidatePresentSections ==
    AfterDefaults =>
        /\ \A p \in Fields(schema) :
              Def(p).required =>
                  /\ (Def(p).default_value = None /\ Held(p) = NoValue
                      /\ p[1] \in DOMAIN values)
                        => result.status = "ValidationErrors" /\ ReportsMissing(p)
                  /\ is_some(Def(p).default_value) => ~ReportsMissing(p)
        /\ AppliedThenValidated

\* C8: validate_and_apply_defaults has set the default of a required field and
\* reported a required field without default as missing
C8_witness ==
    /\ result.op = "validate_and_apply_defaults"
    /\ \E p, q \in Fields(schema) :
          /\ Def(p).required /\ is_some(Def(p).default_value)
          /\ get(hist.before.values, p[1], p[2]) = NoValue
          /\ Held(p) = unwrap(Def(p).default_value)
          /\ Def(q).required /\ Def(q).default_value = None /\ ReportsMissing(q)

\* C9: a second apply_defaults leaves the store as the first one left it
C9_ApplyDefaultsIdempotent ==
    (result.op = "apply_defaults" /\ hist.before.op = "apply_defaults")
        => values = hist.before.values

\* C9: apply_defaults has run twice in a row on a store that lacked two defaults
C9_witness ==
    /\ result.op = "apply_defaults" /\ hist.before.op = "apply_defaults"
    /\ Cardinality({ p \in Fields(schema) :
                       /\ is_some(Def(p).default_value)
                       /\ LastSet(hist.last, p[1], p[2]) = NoValue
                       /\ Held(p) = unwrap(Def(p).default_value) }) = 2

\* the fields whose default the last apply_defaults had to set
Defaulted ==
    { p \in Fields(schema) :
        is_some(Def(p).default_value) /\ get(hist.before.values, p[1], p[2]) = NoValue }

\* C10: apply_defaults keeps the value of every pair that was present, gives
\* every absent key of a field with a default that default, creating its
\* section if needed, and adds no other key
C10_ApplyDefaultsFrame ==
    result.op = "apply_defaults" =>
        /\ \A p \in Pairs(hist.before.values) :
              Held(p) = get(hist.before.values, p[1], p[2])
        /\ \A p \in Defaulted : Held(p) = unwrap(Def(p).default_value)
        /\ Pairs(values) = Pairs(hist.before.values) \cup Defaulted
        /\ DOMAIN values = DOMAIN hist.before.values \cup { p[1] : p \in Defaulted }

\* C10: apply_defaults has run on a store that held a value for one field
\* with a default and lacked another, in a section it had to create
C10_witness ==
    /\ result.op = "apply_defaults"
    /\ \E p \in Defaulted : p[1] \notin DOMAIN hist.before.values
    /\ \E p \in Fields(schema) \ Defaulted :
          /\ is_some(Def(p).default_value)
          /\ Held(p) # unwrap(Def(p).default_value)


(***************************************************************************)
(* Specification SpecResolve: a main file of each format that assigns      *)
(* default.kb and default.ki and names, in its include, files that can be  *)
(* read, a file that does not exist, a directory, patterns, and values     *)
(* that are not file names (tests/integration_tests.rs                     *)
(* test_error_handling, tests/config_tests.rs test_include_glob_pattern)   *)
(***************************************************************************)
\* the directory /d/sub
SubPath == InDir(<<"s","u","b">>)

\* /d/i.ini assigns default.ki; /d/sub is a directory; /d/q.conf does not exist
GoodInclude == VString(<<"i",".","i","n","i">>)

\* the values of the include entry of a main file
ResolveIncludes ==
    { GoodInclude, VString(<<"q",".","c","o","n","f">>), VString(<<"s","u","b">>), VString(<<"z","*">>),
      VString(<<"a","*","*">>), VString(<<"s","u","*">>), VString(<<"*",".","i","n","i">>),
      VArray(<<GoodInclude, VInteger(1)>>), VArray(<<VInteger(1), GoodInclude>>),
      VArray(<<GoodInclude, VString(<<"q",".","c","o","n","f">>)>>),
      VArray(<<GoodInclude, VString(<<"*",".","i","n","i">>)>>),
      VArray(<<GoodInclude, VString(<<"y",".","y","m","l">>)>>),
      VArray(<<>>), VInteger(5), VBoolean(TRUE),
      VTable([n \in { <<"k">> } |-> GoodInclude]) }

\* the entries an include value stands for, when all of them are strings
IncludeStrings(inc) ==
    IF inc.t = "String" THEN <<inc.v>>
    ELSE IF inc.t = "Array" /\ \A i \in 1..Len(inc.v) : inc.v[i].t = "String"
    THEN [i \in 1..Len(inc.v) |-> inc.v[i].v]
    ELSE <<>>

\* the root { include: inc, ki: 2, kb: 3 }
ResolveTree(inc) ==
    ObjectTree([n \in { IncludeWord, <<"k","i">>, <<"k","b">> } |->
                   IF n = IncludeWord THEN inc
                   ELSE IF n = <<"k","i">> THEN VInteger(2) ELSE VInteger(3)])

\* the main file of a format: a line-format file has one include line for
\* each entry, after kb = 3 and before ki = 2; of a structured file only the
\* first line is text the converters look at
ResolveMain(fmt, inc) ==
    CASE fmt = "ini" ->
            File(<< <<"#","!","c","o","n","f","i","g","/","i","n","i">>, <<"k","b"," ","="," ","3">> >>
                 \o [i \in 1..Len(IncludeStrings(inc)) |->
                        <<"i","n","c","l","u","d","e"," ","="," ">> \o IncludeStrings(inc)[i]]
                 \o << <<"k","i"," ","="," ","2">> >>, NoTree, NoTree, NoTree)
      [] fmt = "toml" -> File(<< <<"#","!","c","o","n","f","i","g","/","t","o","m","l">> >>, ResolveTree(inc), NoTree, NoTree)
      [] fmt = "yaml" -> File(<< <<"#","!","c","o","n","f","i","g","/","y","a","m","l">> >>, NoTree, ResolveTree(inc), NoTree)
      [] fmt = "json" -> File(<< <<"#","!","c","o","n","f","i","g","/","j","s","o","n">> >>, NoTree, ResolveTree(inc), ResolveTree(inc))

InitResolve ==
    \E fmt \in {"ini", "toml", "yaml", "json"}, inc \in ResolveIncludes :
        /\ fmt = "ini" => IncludeStrings(inc) # <<>>
        /\ New([q \in DOMAIN LeafFs \cup {MainPath, SubPath} |->
                   IF q = MainPath THEN ResolveMain(fmt, inc)
                   ELSE IF q = SubPath THEN Directory ELSE LeafFs[q]])

\* a set call before the first load: of a pair the files leave alone, or of
\* one they assign
SetFirst ==
    /\ hist.loads = 0 /\ hist.sets = 0
    /\ \E p \in { << <<"s">>, <<"k","0">> >>, << DefaultSection, <<"k","i">> >> } :
          Set(p[1], p[2], VInteger(9))

NextResolve == SetFirst \/ LoadMain \/ ParseIniStep \/ GlobStep \/ StructuredStep

SpecResolve == InitResolve /\ [][NextResolve]_vars


\* the include the innermost running call resolves in its next step, if it
\* resolves one: the next include line of a line-format file, the next entry
\* of the include value of a structured file
IncludeAtHand ==
    IF stack = <<>> THEN {}
    ELSE LET f == Top(Machine)
             r == ini_run(values, lines_to_process(fs[f.path].lines), f.idx, f.section)
         IN  CASE f.kind = "ini" -> IF r.event = "include" THEN {VString(r.arg)} ELSE {}
               [] f.kind = "glob" -> {}
               [] OTHER -> IF f.idx <= Len(f.items) THEN {f.items[f.idx]} ELSE {}

\* an include entry of the file base that cannot be resolved: not a string, a
\* pattern that is invalid or matches nothing, a path that names no file or a
\* file that cannot be read
FaultyInclude(inc, base) ==
    \/ inc.t # "String"
    \/ /\ inc.t = "String"
       /\ LET resolved == resolve_path(base, inc.v)
          IN  IF contains_char(inc.v, "*")
              THEN pattern_error(resolved) \/ glob(fs, resolved) = {}
              ELSE resolved \notin DOMAIN fs \/ ~fs[resolved].readable

\* a converter call on a structured file whose root has an include entry that
\* is neither a string nor a list
BadIncludeValue(e) ==
    /\ e.conv # "ini"
    /\ LET tree == fs[e.path].trees[e.conv]
       IN  /\ tree.kind = "Object"
           /\ IncludeWord \in DOMAIN tree.root
           /\ tree.root[IncludeWord].t \notin {"String", "Array"}

IncludeErrorReturned == result = Outcome("load", "IncludeError") /\ stack = <<>>

\* C11: a load that comes to an include naming a missing or unreadable file,
\* an invalid pattern or a pattern without match, or to a non-string entry of
\* an include list, fails with IncludeError in that step; so does a load that
\* calls a structured converter on a file whose include is neither a string
\* nor a list
C11_IncludeFailures ==
    [][ /\ (\E inc \in IncludeAtHand : FaultyInclude(inc, Top(Machine).path))
            => IncludeErrorReturned'
        /\ (/\ hist'.log # <<>>
            /\ hist'.loads # hist.loads \/ Len(hist'.log) > Len(hist.log)
            /\ BadIncludeValue(hist'.log[Len(hist'.log)]))
            => IncludeErrorReturned' ]_vars

\* C11: a load has failed with IncludeError at the second entry of an include
\* list, after the file of the first entry was merged
C11_witness ==
    /\ IncludeErrorReturned
    /\ hist.top = MainPath
    /\ fs[MainPath].trees["json"] = ResolveTree(VArray(<<GoodInclude, VInteger(1)>>))
    /\ Len(hist.log) = 2
    /\ get(values, DefaultSection, <<"k","i">>) = VBoolean(TRUE)


(***************************************************************************)
(* Specification SpecGlob: a main file of each format whose include is a   *)
(* pattern matching one, two or three files of its directory, which the    *)
(* pattern enumerates in any order (tests/config_tests.rs                  *)
(* test_include_glob_pattern)                                              *)
(***************************************************************************)
\* /d/g1.conf and /d/g2.conf are line-format files that both assign s.k1;
\* /d/g3.yml is a YAML document without a first line naming its format
GlobFs ==
    LET F == [
          a |-> File(<< <<"[","s","]">>, <<"k","1"," ","="," ","1","0">>, <<"k","2"," ","="," ","1","0","0">> >>, NoTree, ScalarTree, NoTree),
          b |-> File(<< <<"#","!","c","o","n","f","i","g","/","i","n","i">>, <<"k","5"," ","="," ","o","f","f">>, <<"[","s","]">>, <<"k","1"," ","="," ","2","0">>, <<"k","3"," ","="," ","x">> >>,
                     NoTree, NoTree, NoTree),
          c |-> File(<< <<"k","4",":"," ","1">> >>, NoTree, OneTree(<<"k","4">>), NoTree) ]
        Q == [ a |-> InDir(<<"g","1",".","c","o","n","f">>), b |-> InDir(<<"g","2",".","c","o","n","f">>), c |-> InDir(<<"g","3",".","y","m","l">>) ]
    IN  [q \in { Q[x] : x \in DOMAIN Q } |-> F[CHOOSE x \in DOMAIN Q : Q[x] = q]]

GlobPatterns == { <<"g","1","*">>, <<"g","*",".","c","o","n","f">>, <<"g","*">>, <<".","/","g","*",".","c","o","n","f">>, <<"*",".","y","m","l">> }

\* the root { include: pattern, s: { k3: 7 } }
GlobTree(pat) ==
    ObjectTree([n \in { IncludeWord, <<"s">> } |->
                   IF n = IncludeWord THEN VString(pat)
                   ELSE VTable([k \in { <<"k","3">> } |-> VInteger(7)])])

\* the main file: it assigns s.k3 after its include
GlobMain(fmt, pat) ==
    CASE fmt = "ini" ->
            File(<< <<"#","!","c","o","n","f","i","g","/","i","n","i">>, <<"i","n","c","l","u","d","e"," ","="," ">> \o pat, <<"[","s","]">>, <<"k","3"," ","="," ","7">> >>,
                 NoTree, NoTree, NoTree)
      [] fmt = "toml" -> File(<< <<"#","!","c","o","n","f","i","g","/","t","o","m","l">> >>, GlobTree(pat), NoTree, NoTree)
      [] fmt = "yaml" -> File(<< <<"#","!","c","o","n","f","i","g","/","y","a","m","l">> >>, NoTree, GlobTree(pat), NoTree)
      [] fmt = "json" -> File(<< <<"#","!","c","o","n","f","i","g","/","j","s","o","n">> >>, NoTree, GlobTree(pat), GlobTree(pat))

InitGlob ==
    \E fmt \in {"ini", "toml", "yaml", "json"}, pat \in GlobPatterns :
        New([q \in DOMAIN GlobFs \cup {MainPath} |->
                IF q = MainPath THEN GlobMain(fmt, pat) ELSE GlobFs[q]])

NextGlob == LoadMain \/ ParseIniStep \/ GlobStep \/ StructuredStep

SpecGlob == InitGlob /\ [][NextGlob]_vars

\* the pattern the main file includes
MainPattern ==
    LET fmt == detect_format_from_content(fs[MainPath].lines)
    IN  IF fmt = "Ini" THEN include_capture(fs[MainPath].lines[2])
        ELSE fs[MainPath].trees[ConverterOf(fmt)].root[IncludeWord].v

\* the files the pattern of the main file matches
Matched == glob(fs, resolve_path(MainPath, MainPattern))

\* the store a file gives when the converter of its format (by its first
\* line, else by its extension, else that of the including file) reads it
\* into an empty store
AssignedIn(path, by) ==
    LET conv == ClaimedConverter(path, by)
        root == fs[path].trees[conv].root
    IN  IF conv = "ini"
        THEN ini_run(EmptyMap, lines_to_process(fs[path].lines), 1, DefaultSection).values
        ELSE store_entries(EmptyMap, conv, root, SomeOrder(DOMAIN root))

\* the pairs the main file assigns after its include
MainAssigned == { << <<"s">>, <<"k","3">> >> }

\* the matched files that assign the pair p
Assigners(p) ==
    { q \in Matched : p \in Pairs(AssignedIn(q, ConverterOf(format))) }

\* C12: after a successful load of a main file whose include is a pattern,
\* every pair assigned in a matched file is present in the store, and a pair
\* assigned by one matched file only (and not by the main file afterwards)
\* holds the value of that file, whatever the order of the matches was
C12_GlobMergesAll ==
    MainLoaded =>
        \A q \in Matched :
            \A p \in Pairs(AssignedIn(q, ConverterOf(format))) :
                /\ get(values, p[1], p[2]) # NoValue
                /\ (Assigners(p) = {q} /\ p \notin MainAssigned)
                      => get(values, p[1], p[2])
                            = get(AssignedIn(q, ConverterOf(format)), p[1], p[2])

\* C12 for matched files that are all line-format files
C12_GlobMergesLineFiles ==
    (MainLoaded /\ \A q \in Matched : ClaimedConverter(q, ConverterOf(format)) = "ini")
        => C12_GlobMergesAll


\* the last operation is a load that has failed
LoadFailed == result.op = "load" /\ result.status \notin {"Running", "Ok"}

\* what the lines of the running line-format call give, from its position to
\* its next include, in an empty store
LinesAtHand ==
    LET f == Top(Machine)
    IN  ini_run(EmptyMap, lines_to_process(fs[f.path].lines), f.idx, f.section).values

\* C13: no step of a load removes a pair from the store; the step in which a
\* load fails leaves the store as the steps before built it, but for the lines
\* a line-format file has between its last include and the failing one, whose
\* pairs are stored too
C13_NoRollback ==
    [][ result'.op = "load" =>
          /\ Pairs(values) \subseteq Pairs(values')
          /\ (LoadFailed' /\ ~(stack # <<>> /\ Top(Machine).kind = "ini"))
                => values' = values
          /\ (LoadFailed' /\ stack # <<>> /\ Top(Machine).kind = "ini")
                => /\ Pairs(values') = Pairs(values) \cup Pairs(LinesAtHand)
                   /\ \A p \in Pairs(values') :
                         get(values', p[1], p[2]) =
                            IF p \in Pairs(LinesAtHand) THEN get(LinesAtHand, p[1], p[2])
                            ELSE get(values, p[1], p[2]) ]_vars

\* C13: a load of a line-format file has failed at its second include; the
\* pair set before the load, the pair of the lines before the includes and
\* the pair of the first included file are in the store
C13_witness ==
    /\ LoadFailed /\ stack = <<>>
    /\ hist.top = MainPath /\ format = "Ini"
    /\ hist.before.values = set(EmptyMap, <<"s">>, <<"k","0">>, VInteger(9))
    /\ Len(hist.log) = 2
    /\ values = set(set(hist.before.values, DefaultSection, <<"k","b">>, VInteger(3)),
                    DefaultSection, <<"k","i">>, VBoolean(TRUE))


(***************************************************************************)
(* Specification SpecCycle: files of one directory that include one        *)
(* another in a chain, a diamond or a cycle.  The call stack of the load   *)
(* is cut at MaxDepth calls; SpecCycleLive adds that a running load takes  *)
(* its next step.                                                          *)
(***************************************************************************)
MaxDepth == 5

APath == InDir(<<"a",".","c","o","n","f">>)

BPath == InDir(<<"b",".","c","o","n","f">>)

CPath == InDir(<<"c",".","c","o","n","f">>)

\* the includes of /d/main, /d/a.conf, /d/b.conf and /d/c.conf, in this order
CycleGraphs ==
    { << <<<<"a",".","c","o","n","f">>>>, <<<<"b",".","c","o","n","f">>>>, <<>>, <<>> >>,
      << <<<<"a",".","c","o","n","f">>, <<"b",".","c","o","n","f">>>>, <<<<"c",".","c","o","n","f">>>>, <<<<"c",".","c","o","n","f">>>>, <<>> >>,
      << <<<<"*",".","c","o","n","f">>>>, <<>>, <<<<"c",".","c","o","n","f">>>>, <<>> >>,
      << <<<<"m","a","i","n">>>>, <<>>, <<>>, <<>> >>,
      << <<<<"a",".","c","o","n","f">>>>, <<<<".",".","/","d","/","m","a","i","n">>>>, <<>>, <<>> >>,
      << <<<<"a",".","c","o","n","f">>>>, <<<<"b",".","c","o","n","f">>>>, <<<<"c",".","c","o","n","f">>, <<"a",".","c","o","n","f">>>>, <<>> >>,
      << <<<<"m","*">>>>, <<>>, <<>>, <<>> >>,
      << <<<<"a","*">>>>, <<<<".","/","*">>>>, <<>>, <<>> >>,
      << <<<<"q",".","c","o","n","f">>, <<"m","a","i","n">>>>, <<>>, <<>>, <<>> >> }

\* a file that assigns k and has the includes incs
CycleFile(fmt, incs) ==
    IF fmt = "ini"
    THEN File(<< <<"k"," ","="," ","1">> >> \o [i \in 1..Len(incs) |-> <<"i","n","c","l","u","d","e"," ","="," ">> \o incs[i]],
              NoTree, NoTree, NoTree)
    ELSE File(<< <<"#","!","c","o","n","f","i","g","/","t","o","m","l">> >>,
              ObjectTree([n \in { IncludeWord, <<"k">> } |->
                             IF n = IncludeWord
                             THEN VArray([i \in 1..Len(incs) |-> VString(incs[i])])
                             ELSE VInteger(1)]),
              NoTree, NoTree)

InitCycle ==
    \E fmt \in {"ini", "toml"}, g \in CycleGraphs :
        New([q \in {MainPath, APath, BPath, CPath} |->
                CycleFile(fmt, CASE q = MainPath -> g[1] [] q = APath -> g[2]
                                 [] q = BPath -> g[3] [] q = CPath -> g[4])])

\* a step of the running load, while its call stack is not deeper than MaxDepth
RunStep ==
    /\ Len(stack) <= MaxDepth
    /\ (ParseIniStep \/ GlobStep \/ StructuredStep)

NextCycle == LoadMain \/ RunStep

SpecCycle == InitCycle /\ [][NextCycle]_vars

\* a step of the running load can be taken: every step of a call is defined
\* whatever the file holds
RunEnabled == stack # <<>> /\ Len(stack) <= MaxDepth

\* weak fairness of RunStep, WF_vars(RunStep), with the state predicate
\* RunEnabled for ENABLED <<RunStep>>_vars: the load is one sequential call
\* that goes on until it returns
RunFair == []<>(~RunEnabled) \/ []<><<RunStep>>_vars

SpecCycleLive == SpecCycle /\ RunFair


\* the include entries a file has, read as its first line says
IncludeEntries(q) ==
    LET fmt == detect_format_from_content(fs[q].lines)
        lines == lines_to_process(fs[q].lines)
        marked == { i \in 1..Len(lines) : is_include_line(strip_comments(lines[i])) }
        root == fs[q].trees[ConverterOf(fmt)].root
    IN  IF fmt = "Ini"
        THEN { include_capture(strip_comments(lines[i])) : i \in marked }
        ELSE IF IncludeWord \in DOMAIN root
             THEN { root[IncludeWord].v[i].v : i \in 1..Len(root[IncludeWord].v) }
             ELSE {}

\* the files a file includes: the include graph
IncludeTargets(q) ==
    UNION { IF contains_char(inc, "*") THEN glob(fs, resolve_path(q, inc))
            ELSE {resolve_path(q, inc)} \cap DOMAIN fs : inc \in IncludeEntries(q) }

\* the files reachable in the include graph from the files of S
RECURSIVE Reachable(_)
Reachable(S) ==
    LET T == S \cup UNION { IncludeTargets(q) : q \in S }
    IN  IF T = S THEN S ELSE Reachable(T)

\* no file reachable from the main file is reachable from itself
Acyclic == \A q \in Reachable({MainPath}) : q \notin Reachable(IncludeTargets(q))

\* a converter call is running inside a call of the same converter on the
\* same file
Reentered ==
    \E i, j \in 1..Len(stack) :
        /\ i < j
        /\ stack[i].kind # "glob"
        /\ stack[i].kind = stack[j].kind
        /\ stack[i].path = stack[j].path

\* the file the include at hand names by its path, when a call on that file
\* is running: no set of visited files keeps the call from entering it again,
\* unless the converter picked for it rejects it
ClosingInclude ==
    { q \in { stack[i].path : i \in { j \in 1..Len(stack) : stack[j].kind # "glob" } } :
        \E inc \in IncludeAtHand :
            /\ inc.t = "String"
            /\ ~contains_char(inc.v, "*")
            /\ resolve_path(Top(Machine).path, inc.v) = q }

LoadRunning == result.op = "load" /\ result.status = "Running"

LoadCompleted == result.op = "load" /\ result.status # "Running" /\ stack = <<>>

\* C14: a load over an acyclic include graph completes, with success or with
\* an error; once a file is entered again inside its own call the load never
\* completes: the call inside the call stays, and the call stack grows past
\* every depth; an include that names a file whose call is running enters
\* the file again
C14_IncludeCycles ==
    /\ (LoadRunning /\ Acyclic) ~> LoadCompleted
    /\ [](Reentered => LoadRunning)
    /\ [][Reentered => Reentered']_vars
    /\ Reentered ~> (Len(stack) > MaxDepth)
    /\ [][\A q \in ClosingInclude :
             \/ Len(stack') = Len(stack) + 1 /\ stack'[Len(stack')].path = q
             \/ LoadFailed']_vars

\* C14: the load of a file that includes itself has entered it as often as
\* the cut of the call stack allows
C14_witness ==
    /\ LoadRunning
    /\ Len(stack) = MaxDepth + 1
    /\ \A i \in 1..Len(stack) : stack[i].kind = "ini" /\ stack[i].path = MainPath


(***************************************************************************)
(* Specification SpecStrip: loads of a line-format file whose one line is  *)
(* k = followed by a text of quotes, backslashes, # signs, letters and     *)
(* blanks (tests/config_tests.rs test_comments)                            *)
(***************************************************************************)
MaxText == 4

StripChars == { "a", "#", "\"", "\\", " " }

\* the value texts: every text of up to MaxText characters, and some longer
StripTexts ==
    UNION { [1..n -> StripChars] : n \in 0..MaxText }
    \cup { <<"\"","a","#","b","\""," ","#"," ","t","r","a","i","l","i","n","g">>, <<"\"","a","\\","\"","#","b","\""," ","#"," ","c">>, <<"\"","a","\\","\"","b","\\","\"","#","c","\"">>, <<"a"," ","#"," ","\"","b","\"">> }

InitStrip ==
    \E text \in StripTexts :
        New([q \in {MainPath} |-> File(<< <<"k"," ","="," ">> \o text >>, NoTree, NoTree, NoTree)])

NextStrip == LoadMain \/ ParseIniStep

SpecStrip == InitStrip /\ [][NextStrip]_vars

\* the text before the first # outside a double-quoted span, a span ending at
\* the next quote that no backslash escapes
RECURSIVE BeforeComment(_, _)
BeforeComment(line, in_quotes) ==
    IF line = <<>> THEN <<>>
    ELSE IF in_quotes /\ Len(line) >= 2 /\ line[1] = "\\" /\ line[2] = "\""
    THEN <<"\\", "\"">> \o BeforeComment(Drop(line, 2), TRUE)
    ELSE IF line[1] = "\"" THEN <<"\"">> \o BeforeComment(Tail(line), ~in_quotes)
    ELSE IF line[1] = "#" /\ ~in_quotes THEN <<>>
    ELSE <<line[1]>> \o BeforeComment(Tail(line), in_quotes)

\* the value a key = value text stores
StoredBy(text) == IF is_kv_line(text) THEN parse_value(kv_value(text)) ELSE NoValue

\* C15: the value a loaded line stores is the value of the text before its
\* first # outside a double-quoted span, trailing blanks trimmed; a # inside a
\* quoted value, escaped quotes or not, is part of the value
C15_CommentStripping ==
    MainLoaded =>
        get(values, DefaultSection, <<"k">>)
            = StoredBy(trim_end(BeforeComment(fs[MainPath].lines[1], FALSE)))

\* C15 for the lines without an escaped quote inside a quoted span
C15_CommentStrippingNoEscape ==
    (MainLoaded /\ BeforeComment(fs[MainPath].lines[1], FALSE)
                      = strip_loop(BeforeComment(fs[MainPath].lines[1], FALSE), FALSE))
        => C15_CommentStripping


(***************************************************************************)
(* Specification SpecClassify: loads of a line-format file whose one line  *)
(* is k = followed by a raw value of digits, signs, points, quotes and     *)
(* letters (tests/config_tests.rs test_quoted_values, test_value_types)    *)
(***************************************************************************)
MaxRaw == 3

RawChars == { "1", "0", "-", ".", "\"", "o", "n", "N" }

\* the raw values: every text of up to MaxRaw characters, and some longer
RawTexts ==
    UNION { [1..n -> RawChars] : n \in 0..MaxRaw }
    \cup { <<"t","r","u","e">>, <<"T","R","U","E">>, <<"Y","e","s">>, <<"f","a","l","s","e">>, <<"o","F","F">>, <<"1","2","3">>, <<"\"","1","2","3","\"">>, <<"+","1">>,
           <<"1","2",".","5">>, <<"-","1","2",".","5">>, <<"1",".","2",".","3">>, <<"\"","t","r","u","e","\"">>, <<"\"","a","\\","\"","b","\"">>, <<"x">> }

InitClassify ==
    \E text \in RawTexts :
        New([q \in {MainPath} |-> File(<< <<"k"," ","="," ">> \o text >>, NoTree, NoTree, NoTree)])

NextClassify == LoadMain \/ ParseIniStep

SpecClassify == InitClassify /\ [][NextClassify]_vars

\* the raw value of the line of the main file
RawValue == Drop(fs[MainPath].lines[1], 4)

\* a text wrapped in double quotes
Wrapped(s) == Len(s) >= 2 /\ s[1] = "\"" /\ s[Len(s)] = "\""

\* a text that reads as a 64-bit integer: digits after an optional sign
IntegerText(s) ==
    LET d == IF s # <<>> /\ s[1] \in {"+", "-"} THEN Tail(s) ELSE s
    IN  d # <<>> /\ \A i \in 1..Len(d) : IsDigit(d[i])

\* a text that reads as a float: digits with at most one point, after an
\* optional sign
FloatText(s) ==
    LET d == IF s # <<>> /\ s[1] \in {"+", "-"} THEN Tail(s) ELSE s
    IN  /\ \E i \in 1..Len(d) : IsDigit(d[i])
        /\ \A i \in 1..Len(d) : IsDigit(d[i]) \/ d[i] = "."
        /\ Cardinality({ i \in 1..Len(d) : d[i] = "." }) <= 1

\* the value of a raw value by the priority of the claim
Classified(s) ==
    IF Wrapped(s) THEN VString(unescape(SubSeq(s, 2, Len(s) - 1)))
    ELSE IF to_lowercase(s) \in { <<"t","r","u","e">>, <<"y","e","s">>, <<"o","n">>, <<"1">> } THEN VBoolean(TRUE)
    ELSE IF to_lowercase(s) \in { <<"f","a","l","s","e">>, <<"n","o">>, <<"o","f","f">>, <<"0">> } THEN VBoolean(FALSE)
    ELSE IF IntegerText(s) THEN VInteger(parse_i64(s))
    ELSE IF FloatText(s) THEN VFloat(parse_f64(s))
    ELSE VString(s)

\* the load of the main file has ended
MainEnded == result.op = "load" /\ hist.top = MainPath /\ result.status # "Running"

\* C16: every raw value is stored as the priority of the claim classifies it:
\* Text without its quotes when wrapped in quotes, else Boolean for a boolean
\* word in any case (1 and 0 among them), else Integer, else Float, else Text
\* verbatim
C16_ValueClassification ==
    MainEnded =>
        /\ result.status = "Ok"
        /\ get(values, DefaultSection, <<"k">>) = Classified(RawValue)

\* C16 for every raw value but the single character "
C16_ValueClassificationButLoneQuote ==
    RawValue # <<"\"">> => C16_ValueClassification


(***************************************************************************)
(* Specification SpecKeep: a program that calls set, load_from_file,       *)
(* validate, apply_defaults and validate_and_apply_defaults in any order,  *)
(* over files whose loads succeed and files whose loads fail               *)
(***************************************************************************)
\* a line-format file whose load fails at its include, between two pairs
KeepFailing ==
    File(<< <<"#","!","c","o","n","f","i","g","/","i","n","i">>, <<"[","s","1","]">>, <<"k","1"," ","="," ","1","5">>, <<"i","n","c","l","u","d","e"," ","="," ","q",".","c","o","n","f">>, <<"k","2"," ","="," ","a","b","c">> >>,
         NoTree, NoTree, NoTree)

\* a line-format file whose load succeeds
KeepGood == File(<< <<"[","s","2","]">>, <<"k","9"," ","="," ","o","n">> >>, NoTree, ScalarTree, NoTree)

\* a TOML file whose load succeeds
KeepToml ==
    File(<< <<"#","!","c","o","n","f","i","g","/","t","o","m","l">>, <<"[","s","1","]">>, <<"k","1"," ","="," ","5">> >>,
         ObjectTree([n \in { <<"s","1">> } |-> [t |-> "Table", v |-> [k \in { <<"k","1">> } |-> VInteger(5)]]]),
         NoTree, NoTree)

\* a file that names YAML and is not a YAML document: its load fails in the
\* parser
KeepBroken == File(<< <<"#","!","c","o","n","f","i","g","/","y","a","m","l">>, <<"k",":"," ","[">> >>, NoTree, NoTree, NoTree)

KeepFs ==
    LET P == << MainPath, InDir(<<"o","k",".","i","n","i">>), InDir(<<"t",".","t","o","m","l">>), InDir(<<"b",".","y","m","l">>) >>
        F == << KeepFailing, KeepGood, KeepToml, KeepBroken >>
    IN  [q \in { P[i] : i \in 1..4 } |-> F[CHOOSE i \in 1..4 : P[i] = q]]

InitKeep ==
    /\ values = EmptyMap
    /\ format = "Unknown"
    /\ config_file_path = NoPath
    /\ fs = KeepFs
    /\ stack = <<>>
    /\ result = Outcome("new", "Ok")
    /\ schema \in {SchemaA, SchemaC}
    /\ hist = NewHist

SetKept ==
    /\ hist.sets < MaxValSets
    /\ \E p \in { << <<"s","1">>, <<"k","1">> >>, << <<"s","3">>, <<"k","2">> >> } : Set(p[1], p[2], VInteger(5))

NextKeep ==
    \/ SetKept \/ LoadAny \/ ParseIniStep \/ StructuredStep
    \/ Validate \/ ApplyDefaults \/ ValidateAndApplyDefaults

SpecKeep == InitKeep /\ [][NextKeep]_vars

\* C17: no step of set, of a load that succeeds or fails, of apply_defaults
\* or of validate takes a pair out of the store: the pairs present only grow,
\* and a pair get returns a value for has a value after the step
C17_NoDeletion ==
    [][ /\ Pairs(values) \subseteq Pairs(values')
        /\ \A s \in DOMAIN values : \A k \in DOMAIN values[s] :
              get(values, s, k) # NoValue => get(values', s, k) # NoValue ]_vars

\* a load has failed on a store that holds a pair set before, the pair the
\* file assigned before its include failed, and a default filled in
C17_witness ==
    /\ LoadFailed /\ result.status = "IncludeError"
    /\ hist.sets > 0
    /\ get(values, <<"s","3">>, <<"k","2">>) = VInteger(5)
    /\ get(values, <<"s","1">>, <<"k","1">>) = VInteger(15)
    /\ get(values, <<"s","2">>, <<"k","2">>) = VString(<<"d">>)


(***************************************************************************)
(* The typed getters of Config.  An Option is a set of at most one         *)
(* element; a returned float is ten times the number, as in VFloat.        *)
(***************************************************************************)
\* ConfigValue::as_string
as_string(value) == IF value.t = "String" THEN Some(value.v) ELSE None

\* ConfigValue::as_integer
as_integer(value) == IF value.t = "Integer" THEN Some(value.v) ELSE None

\* ConfigValue::as_float
as_float(value) ==
    CASE value.t = "Float" -> Some(value.v)
      [] value.t = "Integer" -> Some(10 * value.v)
      [] OTHER -> None

\* ConfigValue::as_boolean
as_boolean(value) == IF value.t = "Boolean" THEN Some(value.v) ELSE None

\* Option::or
or(o, optb) == IF is_some(o) THEN o ELSE optb

\* Config::get_string
get_string(vals, sect, key, dflt) ==
    IF get(vals, sect, key) # NoValue
    THEN as_string(get(vals, sect, key))
    ELSE dflt

\* Config::get_integer
get_integer(vals, sect, key, dflt) ==
    IF get(vals, sect, key) # NoValue
    THEN or(as_integer(get(vals, sect, key)), dflt)
    ELSE dflt

\* Config::get_float
get_float(vals, sect, key, dflt) ==
    IF get(vals, sect, key) # NoValue
    THEN or(as_float(get(vals, sect, key)), dflt)
    ELSE dflt

\* Config::get_boolean
get_boolean(vals, sect, key, dflt) ==
    IF get(vals, sect, key) # NoValue
    THEN or(as_boolean(get(vals, sect, key)), dflt)
    ELSE dflt

(***************************************************************************)
(* Specification SpecGet: set calls on a new store with values of every    *)
(* type, and calls of the typed getters with and without a default         *)
(***************************************************************************)
MaxGetSets == 2

GetKeys == { <<"k","1">>, <<"k","2">> }

GetValues ==
    { VString(<<"a">>), VInteger(3), VFloat(25), VBoolean(TRUE),
      VArray(<< VInteger(1) >>), VTable([n \in { <<"n">> } |-> VInteger(1)]) }

\* what a getter returned, and the arguments of the call
Returned(op, sect, key, dflt, ret) ==
    [op |-> op, status |-> "Ok", errors |-> <<>>,
     section |-> sect, key |-> key, dflt |-> dflt, ret |-> ret]

\* a call of a getter leaves the store alone
Gets(op, sect, key, dflt, ret) ==
    /\ result' = Returned(op, sect, key, dflt, ret)
    /\ UNCHANGED <<values, format, config_file_path, fs, stack, schema, hist>>

SetGet ==
    /\ hist.sets < MaxGetSets
    /\ \E k \in GetKeys, v \in GetValues : Set(<<"s">>, k, v)

GetString ==
    /\ stack = <<>>
    /\ \E k \in GetKeys, dflt \in { None, Some(<<"d">>) } :
          Gets("get_string", <<"s">>, k, dflt, get_string(values, <<"s">>, k, dflt))

GetInteger ==
    /\ stack = <<>>
    /\ \E k \in GetKeys, dflt \in { None, Some(7) } :
          Gets("get_integer", <<"s">>, k, dflt, get_integer(values, <<"s">>, k, dflt))

GetFloat ==
    /\ stack = <<>>
    /\ \E k \in GetKeys, dflt \in { None, Some(75) } :
          Gets("get_float", <<"s">>, k, dflt, get_float(values, <<"s">>, k, dflt))

GetBoolean ==
    /\ stack = <<>>
    /\ \E k \in GetKeys, dflt \in { None, Some(FALSE) } :
          Gets("get_boolean", <<"s">>, k, dflt, get_boolean(values, <<"s">>, k, dflt))

NextGet == SetGet \/ GetString \/ GetInteger \/ GetFloat \/ GetBoolean

SpecGet == InitSet /\ [][NextGet]_vars

\* a typed getter has returned
GetterReturned == result.op \in { "get_string", "get_integer", "get_float", "get_boolean" }

\* the value a getter is asked for
Asked == get(values, result.section, result.key)

\* the type a getter asks for
Requested ==
    CASE result.op = "get_string" -> "String" [] result.op = "get_integer" -> "Integer"
      [] result.op = "get_float" -> "Float" [] result.op = "get_boolean" -> "Boolean"

\* what the claim has a getter return
ClaimedReturn ==
    IF Asked = NoValue THEN result.dflt
    ELSE IF Asked.t = Requested THEN Some(Asked.v)
    ELSE IF result.op = "get_float" /\ Asked.t = "Integer" THEN Some(10 * Asked.v)
    ELSE result.dflt

\* C18: each of the four typed getters returns the default when the key is
\* absent, the value when it has the requested type (get_float an Integer
\* too), and the default when the value has another type
C18_TypedGetters == GetterReturned => result.ret = ClaimedReturn

\* C18 for get_integer, get_float and get_boolean, and for get_string but on
\* a value of another type, where it returns None whatever the default
C18_TypedGettersButString ==
    GetterReturned =>
        IF result.op = "get_string" /\ Asked # NoValue /\ Asked.t # "String"
        THEN result.ret = None
        ELSE result.ret = ClaimedReturn


(***************************************************************************)
(* Specification SpecUnknown: a schema with a section of one field and a   *)
(* required section of none, under every setting of allow_unknown_sections *)
(* and allow_unknown_keys; set calls on sections and keys the schema has   *)
(* and lacks; the operations of ValidationExt                              *)
(***************************************************************************)
MaxUnknownSets == 2

UnknownBase == field(required_section(NewSchema, <<"s","2">>), <<"s","1">>, <<"k","1">>, IntTwo)

InitUnknown ==
    /\ values = EmptyMap
    /\ format = "Unknown"
    /\ config_file_path = NoPath
    /\ fs = EmptyFs
    /\ stack = <<>>
    /\ result = Outcome("new", "Ok")
    /\ schema \in { UnknownBase } \cup
                  { allow_unknown_keys(allow_unknown_sections(UnknownBase, a), b) :
                        a, b \in BOOLEAN }
    /\ hist = NewHist

SetUnknown ==
    /\ hist.sets < MaxUnknownSets
    /\ \E s \in { <<"s","1">>, <<"s","2">>, <<"s","3">> }, k \in ValKeys : Set(s, k, VInteger(5))

NextUnknown == SetUnknown \/ Validate \/ ApplyDefaults \/ ValidateAndApplyDefaults

SpecUnknown == InitUnknown /\ [][NextUnknown]_vars

\* how many times validate reported an error
Reported(e) == Cardinality({ i \in 1..Len(result.errors) : result.errors[i] = e })

\* the sections of the store the schema lacks
UnknownSections == DOMAIN values \ DOMAIN schema.sections

\* the pairs of the store in sections the schema has, on keys that are no
\* field of the section
UnknownKeys == { p \in Pairs(values) : /\ p[1] \in DOMAIN schema.sections
                                       /\ p[2] \notin DOMAIN schema.sections[p[1]] }

\* the errors reported of a kind
ReportedOf(kind) == { result.errors[i] : i \in { j \in 1..Len(result.errors) :
                                                    result.errors[j].kind = kind } }

\* C19: with unknown sections disallowed validate reports one unknown-section
\* error for each section of the store the schema lacks, and no field or key
\* error for it; with unknown keys disallowed it reports one unknown-key error
\* for each key of the store that is no field of its section, a section the
\* schema has; with both allowed, as in a new schema, it reports neither kind
C19_UnknownHandling ==
    ValidateReturned =>
        /\ ~schema.allow_unknown_sections =>
              /\ \A s \in UnknownSections : Reported(Error("UnknownSection", s)) = 1
              /\ ReportedOf("UnknownSection") = { Error("UnknownSection", s) : s \in UnknownSections }
              /\ \A s \in UnknownSections : \A i \in 1..Len(result.errors) :
                    result.errors[i].kind \notin {"UnknownSection", "MissingSection"}
                        => ~starts_with(result.errors[i].path, s \o <<".">>)
        /\ ~schema.allow_unknown_keys =>
              /\ \A p \in UnknownKeys : Reported(Error("UnknownKey", field_path(p[1], p[2]))) = 1
              /\ ReportedOf("UnknownKey") =
                    { Error("UnknownKey", field_path(p[1], p[2])) : p \in UnknownKeys }
        /\ schema.allow_unknown_sections /\ schema.allow_unknown_keys =>
              ReportedOf("UnknownSection") \cup ReportedOf("UnknownKey") = {}
        /\ NewSchema.allow_unknown_sections /\ NewSchema.allow_unknown_keys

\* validate has reported an unknown section and an unknown key of a known
\* section, beside a field error of that section, on a store that has a key
\* in the unknown section
C19_witness ==
    /\ result.op = "validate"
    /\ ~schema.allow_unknown_sections /\ ~schema.allow_unknown_keys
    /\ Reported(Error("UnknownSection", <<"s","3">>)) = 1
    /\ Reported(Error("UnknownKey", <<"s","1",".","k","2">>)) = 1
    /\ get(values, <<"s","3">>, <<"k","1">>) # NoValue
    /\ Len(result.errors) >= 3


(***************************************************************************)
(* Include first in the structured converters, on SpecResolve: the main    *)
(* file assigns default.ki = 2 and default.kb = 3, the included i.ini      *)
(* assigns default.ki too, and no other file assigns default.kb            *)
(***************************************************************************)
\* the first load, of a structured main file
StructuredLoad ==
    result.op = "load" /\ hist.loads = 1 /\ format \in {"Toml", "Yaml", "Json"}

\* the included file i.ini was handed to a converter in the last load
IncludedGood ==
    \E i \in 1..Len(hist.log) : hist.log[i].path = resolve_path(MainPath, GoodInclude.v)

\* C20: a structured converter stores no root entry of its file while its
\* include is being resolved or when the include fails, so the entries come
\* after everything the include merged, in whatever order the root iterates;
\* a pair both the included file and the including file assign ends with
\* the including file's value
C20_IncludeFirst ==
    StructuredLoad =>
        /\ LoadRunning \/ LoadFailed =>
              /\ get(values, DefaultSection, <<"k","b">>) = NoValue
              /\ get(values, DefaultSection, <<"k","i">>) # VInteger(2)
        /\ result.status = "Ok" =>
              /\ get(values, DefaultSection, <<"k","i">>) = VInteger(2)
              /\ get(values, DefaultSection, <<"k","b">>) = VInteger(3)

\* a YAML main file was loaded, i.ini included, and default.ki has the value
\* of the main file
C20_witness ==
    /\ StructuredLoad /\ format = "Yaml" /\ result.status = "Ok"
    /\ IncludedGood
    /\ get(values, DefaultSection, <<"k","i">>) = VInteger(2)


(***************************************************************************)
(* Specification SpecFold: line-format files /d/main, /d/a.conf and        *)
(* /d/b.conf that assign the same pairs with different values; the main    *)
(* file includes a.conf, and maybe b.conf, at any of its lines, and a.conf *)
(* may include b.conf at any of its lines                                  *)
(***************************************************************************)
FoldMainLines == << <<"k","1"," ","="," ","1","1">>, <<"[","s","]">>, <<"k","1"," ","="," ","1","2">>, <<"k","2"," ","="," ","1","3"," "," ","#"," ","m","a","i","n">> >>

FoldALines == << <<"k","1"," ","="," ","2","1">>, <<"[","s","]">>, <<"k","2"," ","="," ","2","2">>, <<"[","t","]">>, <<"k","1"," ","="," ","2","3">> >>

FoldBLines == << <<"k","1"," ","="," ","3","1">>, <<"[","s","]">>, <<"k","1"," ","="," ","3","2">> >>

\* lines with one more line after the first p of them
InsertLine(lines, p, line) == SubSeq(lines, 1, p) \o << line >> \o SubSeq(lines, p + 1, Len(lines))

\* lines with an include of name after the first p of them; none when p < 0
WithInclude(lines, p, name) ==
    IF p < 0 THEN lines ELSE InsertLine(lines, p, <<"i","n","c","l","u","d","e"," ","="," ">> \o name)

LinesFile(lines) == File(lines, NoTree, NoTree, NoTree)

InitFold ==
    \E p \in 0..Len(FoldMainLines), p2 \in -1..Len(FoldMainLines), q \in -1..Len(FoldALines),
       head \in { <<>>, << <<"#","!","c","o","n","f","i","g","/","i","n","i">> >> } :
        New([x \in {MainPath, APath, BPath} |->
               CASE x = MainPath ->
                        LinesFile(head \o WithInclude(WithInclude(FoldMainLines, p, <<"a",".","c","o","n","f">>),
                                                      p2, <<".","/","b",".","c","o","n","f">>))
                 [] x = APath -> LinesFile(WithInclude(FoldALines, q, <<"b",".","c","o","n","f">>))
                 [] x = BPath -> LinesFile(FoldBLines)])

NextFold == LoadMain \/ ParseIniStep

SpecFold == InitFold /\ [][NextFold]_vars

\* the set calls a line-format file stands for: one for each of its key/value
\* lines, in order, under the section its own headers name (default before
\* the first), an include line standing for the calls of the file it names;
\* depth bounds the nesting
RECURSIVE Flattened(_, _, _, _)
Flattened(path, i, current, depth) ==
    LET lines == lines_to_process(fs[path].lines)
        line == strip_comments(lines[i])
    IN  IF i > Len(lines) \/ depth = 0 THEN <<>>
        ELSE IF is_include_line(line)
        THEN Flattened(resolve_path(path, include_capture(line)), 1, DefaultSection, depth - 1)
             \o Flattened(path, i + 1, current, depth)
        ELSE IF is_section_line(line)
        THEN Flattened(path, i + 1, section_capture(line), depth)
        ELSE IF is_kv_line(line)
        THEN << << current, kv_key(line), parse_value(kv_value(line)) >> >>
             \o Flattened(path, i + 1, current, depth)
        ELSE Flattened(path, i + 1, current, depth)

\* the store after a sequence of set calls
RECURSIVE Folded(_, _)
Folded(vals, calls) ==
    IF calls = <<>> THEN vals
    ELSE Folded(set(vals, calls[1][1], calls[1][2], calls[1][3]), Tail(calls))

\* the set calls of the main file
MainCalls == Flattened(MainPath, 1, DefaultSection, 3)

\* C21: the store after the load of a line-format file is the store before
\* it after the set calls of the flattened file, in order; each pair has the
\* value of the last call on it, so a line of the including file after the
\* include wins over the included file
C21_LoadIsFold ==
    MainLoaded =>
        /\ values = Folded(hist.before.values, MainCalls)
        /\ \A s \in DOMAIN values : \A k \in DOMAIN values[s] :
              values[s][k] = LastSet(MainCalls, s, k)

\* a load has succeeded in which the main file assigns s.k2 after the
\* include of a.conf, which assigns it too and itself includes b.conf
C21_witness ==
    /\ MainLoaded
    /\ Len(hist.log) = 3 /\ hist.log[2].path = APath /\ hist.log[3].by = "ini"
    /\ hist.log[3].path = BPath
    /\ \E i, j \in 1..Len(MainCalls) :
          /\ i < j
          /\ MainCalls[i] = << <<"s">>, <<"k","2">>, VInteger(22) >>
          /\ MainCalls[j] = << <<"s">>, <<"k","2">>, VInteger(13) >>
    /\ get(values, <<"s">>, <<"k","2">>) = VInteger(13)


\* the values the key/value lines of the files of SpecFold have that stand
\* under a section in their own file, a file starting in default
FoldOwn(s, k) ==
    CASE s = DefaultSection /\ k = <<"k","1">> -> { VInteger(11), VInteger(21), VInteger(31) }
      [] s = <<"s">> /\ k = <<"k","1">> -> { VInteger(12), VInteger(32) }
      [] s = <<"s">> /\ k = <<"k","2">> -> { VInteger(13), VInteger(22) }
      [] s = <<"t">> /\ k = <<"k","1">> -> { VInteger(23) }
      [] OTHER -> {}

\* C22: the current section belongs to the file being parsed: every line is
\* stored under the section its own file names above it, default when none
\* does; the lines of an included file do not go to the section the
\* including file was in, and the lines of the including file after the
\* include do not go to the section the included file ended in
C22_SectionIsLocal ==
    MainLoaded =>
        /\ \A s \in DOMAIN values : \A k \in DOMAIN values[s] : values[s][k] \in FoldOwn(s, k)
        /\ get(values, <<"t">>, <<"k","1">>) = VInteger(23)
        /\ get(values, DefaultSection, <<"k","1">>) # NoValue

\* the main file included a.conf between two lines of its section s: the
\* first line of a.conf went to default, and the line of the main file after
\* the include went to s, though a.conf ended in section t
C22_witness ==
    /\ MainLoaded
    /\ Len(hist.log) = 2 /\ hist.log[2].path = APath
    /\ lines_to_process(fs[MainPath].lines)[4] = <<"i","n","c","l","u","d","e"," ","="," ","a",".","c","o","n","f">>
    /\ get(values, DefaultSection, <<"k","1">>) = VInteger(21)
    /\ get(values, <<"s">>, <<"k","1">>) = VInteger(12)
    /\ get(values, <<"s">>, <<"k","2">>) = VInteger(13)
    /\ DOMAIN values[<<"t">>] = { <<"k","1">> }


(***************************************************************************)
(* Specification SpecAbsent: schemas whose sections have required fields,  *)
(* one section declared required, one with a default; set calls that      *)
(* leave sections of the schema out of the store; the operations of        *)
(* ValidationExt                                                           *)
(***************************************************************************)
\* s2 is required and has a required field, s1 has a required field, s3 a
\* required field with a default
AbsentSchema ==
    field(field(field(required_section(NewSchema, <<"s","2">>), <<"s","2">>, <<"k","1">>, StrReq),
                <<"s","1">>, <<"k","1">>, IntTwo), <<"s","3">>, <<"k","1">>, IntDef)

InitAbsent ==
    /\ values = EmptyMap
    /\ format = "Unknown"
    /\ config_file_path = NoPath
    /\ fs = EmptyFs
    /\ stack = <<>>
    /\ result = Outcome("new", "Ok")
    /\ schema \in { AbsentSchema, allow_unknown_sections(AbsentSchema, FALSE),
                    required_section(AbsentSchema, <<"s","4">>) }
    /\ hist = NewHist

SetAbsent ==
    /\ hist.sets < MaxUnknownSets
    /\ \E s \in { <<"s","1">>, <<"s","2">>, <<"s","5">> }, k \in ValKeys : Set(s, k, VInteger(5))

NextAbsent == SetAbsent \/ Validate \/ ApplyDefaults \/ ValidateAndApplyDefaults

SpecAbsent == InitAbsent /\ [][NextAbsent]_vars

\* the errors validate reported for a section: those with the section as
\* their path, and those with a path of the section
ReportedFor(s) ==
    { i \in 1..Len(result.errors) :
        \/ result.errors[i].path = s
        \/ starts_with(result.errors[i].path, s \o <<".">>) }

\* C23: for a section of the schema that the store lacks validate reports one
\* error, a missing-section error, when the section is required and nothing
\* otherwise; no required field of the section is reported missing
C23_AbsentSections ==
    ValidateReturned =>
        \A s \in DOMAIN schema.sections \ DOMAIN values :
            IF s \in schema.required_sections
            THEN /\ Cardinality(ReportedFor(s)) = 1
                 /\ \A i \in ReportedFor(s) : result.errors[i] = Error("MissingSection", s)
            ELSE ReportedFor(s) = {}

\* validate has run on a store that lacks the required section s2 and the
\* section s1, both with a required field, and has a section the schema
\* lacks: s2 is reported missing, once, beside the unknown section
C23_witness ==
    /\ result.op = "validate" /\ result.status = "ValidationErrors"
    /\ DOMAIN values = { <<"s","5">> }
    /\ schema = allow_unknown_sections(AbsentSchema, FALSE)
    /\ Reported(Error("MissingSection", <<"s","2">>)) = 1
    /\ Len(result.errors) = 2


(***************************************************************************)
(* Specification SpecCustom: a schema whose fields carry a Custom          *)
(* constraint, one field declared Integer, one declared Any; set calls     *)
(* with values of several types, some of which the predicate rejects; the  *)
(* operations of ValidationExt                                             *)
(***************************************************************************)
MaxCustomSets == 2

\* the predicate: it rejects the integer 5 and the text ab
CustomFn ==
    [v \in { VInteger(5), VString(<<"a","b">>) } |->
        IF v.t = "Integer" THEN <<"n","o","t"," ","f","i","v","e">> ELSE <<"n","o"," ","t","e","x","t">>]

CustomDescription == <<"c","h","e","c","k","e","d">>

CustomSchema ==
    field(field(NewSchema, <<"s","1">>, <<"k","1">>,
                constraint(constraint(FieldDefinition_new("Integer"),
                                      custom(CustomFn, CustomDescription)),
                           min_int(integer, 1))),
          <<"s","1">>, <<"k","2">>,
          constraint(FieldDefinition_new("Any"), custom(CustomFn, CustomDescription)))

CustomValues == { VInteger(5), VInteger(15), VString(<<"a","b">>), VString(<<"a","b","c">>) }

InitCustom ==
    /\ values = EmptyMap
    /\ format = "Unknown"
    /\ config_file_path = NoPath
    /\ fs = EmptyFs
    /\ stack = <<>>
    /\ result = Outcome("new", "Ok")
    /\ schema = CustomSchema
    /\ hist = NewHist

SetCustom ==
    /\ hist.sets < MaxCustomSets
    /\ \E k \in ValKeys, v \in CustomValues : Set(<<"s","1">>, k, v)

NextCustom == SetCustom \/ Validate \/ ApplyDefaults \/ ValidateAndApplyDefaults

SpecCustom == InitCustom /\ [][NextCustom]_vars

\* the fields of the schema, in sections of the store, that carry a Custom
\* constraint, with the constraint
CustomFields ==
    { x \in Fields(schema) \X UNION { { schema.sections[p[1]][p[2]].constraints[i] :
                                         i \in 1..Len(schema.sections[p[1]][p[2]].constraints) } :
                                       p \in Fields(schema) } :
        /\ x[2].kind = "Custom"
        /\ \E i \in 1..Len(Def(x[1]).constraints) : Def(x[1]).constraints[i] = x[2] }

\* the custom-constraint error of a field for the value it holds
CustomError(p, c) ==
    CustomConstraintFailed(field_path(p[1], p[2]), c.description,
                           c.validate_fn[get(values, p[1], p[2])])

\* C24: for every present value of a field with a Custom constraint that the
\* predicate rejects, validate reports a custom-constraint error with the
\* description of the constraint and the message of the predicate, whatever
\* type the field declares and whether or not the value has it
C24_CustomAlwaysRuns ==
    ValidateReturned =>
        \A x \in CustomFields :
            get(values, x[1][1], x[1][2]) \in DOMAIN x[2].validate_fn
                => Reported(CustomError(x[1], x[2])) = 1

\* C24 for the values that have the declared type of their field, or any
\* type when the field declares Any; on a value of another type validate
\* reports the type mismatch and no custom-constraint error
C24_CustomRunsOnDeclaredType ==
    ValidateReturned =>
        \A x \in CustomFields :
            LET value == get(values, x[1][1], x[1][2])
                typed == Def(x[1]).value_type \in { "Any", ValueType_from(value) }
            IN  /\ value \in DOMAIN x[2].validate_fn /\ typed
                    => Reported(CustomError(x[1], x[2])) = 1
                /\ value # NoValue /\ ~typed
                    => /\ Reported(Error("TypeMismatch", field_path(x[1][1], x[1][2]))) = 1
                       /\ \A i \in 1..Len(result.errors) :
                             result.errors[i].kind = "CustomConstraintFailed"
                                => result.errors[i].path # field_path(x[1][1], x[1][2])


(***************************************************************************)
(* Specification SpecInert: one field, of any declared type, with two      *)
(* constraints of any kinds and bounds, each of which rejects the values   *)
(* of its own type that are set; set calls with a value of every variant;  *)
(* validate                                                                *)
(***************************************************************************)
MaxInertSets == 1

InertConstraints ==
    { min_length(string, 9), max_length(string, 0), pattern(string, {}),
      allowed_string_values(string, {}),
      min_int(integer, 100), max_int(integer, -100), allowed_int_values(integer, {}),
      min_float(float, 1000), max_float(float, -1000),
      min_length(array, 9), max_length(array, 0),
      item_type(array, FieldDefinition_new("Boolean")) }

InertTypes == { "Any", "String", "Integer", "Float", "Boolean", "Array", "Table" }

InertValues ==
    { VString(<<"a","b">>), VInteger(5), VFloat(25), VBoolean(TRUE), VArray(<< VInteger(1) >>),
      VTable([n \in { <<"n">> } |-> VInteger(1)]) }

InitInert ==
    /\ values = EmptyMap
    /\ format = "Unknown"
    /\ config_file_path = NoPath
    /\ fs = EmptyFs
    /\ stack = <<>>
    /\ result = Outcome("new", "Ok")
    /\ \E type \in InertTypes, c1, c2 \in InertConstraints :
          schema = field(NewSchema, <<"s","1">>, <<"k","1">>,
                         constraint(constraint(FieldDefinition_new(type), c1), c2))
    /\ hist = NewHist

SetInert ==
    /\ hist.sets < MaxInertSets
    /\ \E v \in InertValues : Set(<<"s","1">>, <<"k","1">>, v)

NextInert == SetInert \/ Validate

SpecInert == InitInert /\ [][NextInert]_vars

\* the error kinds of the constraints keyed to a type
KeyedKinds(type) ==
    CASE type = "String" -> { "StringTooShort", "StringTooLong", "PatternMismatch", "InvalidValue" }
      [] type = "Integer" -> { "IntegerTooSmall", "IntegerTooLarge", "InvalidInteger" }
      [] type = "Float" -> { "FloatTooSmall", "FloatTooLarge" }
      [] type = "Array" -> { "ArrayTooShort", "ArrayTooLong" }
      [] OTHER -> {}

\* the value of the field of the schema
InertValue == get(values, <<"s","1">>, <<"k","1">>)

InertDef == schema.sections[<<"s","1">>][<<"k","1">>]

\* C25: a String, Integer, Float or Array constraint evaluated against a
\* value of another variant gives no error, whatever its bounds; validate
\* reports no error of a constraint keyed to another type than the value's,
\* and the type mismatch of the field once when the declared type is not the
\* value's, never otherwise
C25_InertOnOtherTypes ==
    InertValue # NoValue =>
        /\ \A i \in 1..Len(InertDef.constraints) :
              InertDef.constraints[i].kind # InertValue.t
                  => FieldConstraint_validate(InertDef.constraints[i], InertValue, <<"s","1",".","k","1">>) = <<>>
        /\ ValidateReturned =>
              /\ \A i \in 1..Len(result.errors) :
                    result.errors[i].path = <<"s","1",".","k","1">>
                        => result.errors[i].kind \in KeyedKinds(InertValue.t) \cup {"TypeMismatch"}
              /\ Reported(Error("TypeMismatch", <<"s","1",".","k","1">>)) =
                    IF InertDef.value_type \notin { "Any", InertValue.t } THEN 1 ELSE 0

\* validate has succeeded on an integer in a field declared Any with a
\* String and a Float constraint, each of which rejects every value set of
\* its own type
C25_witness ==
    /\ result = Validated("validate", <<>>)
    /\ InertValue = VInteger(5)
    /\ InertDef.value_type = "Any"
    /\ InertDef.constraints = << min_length(string, 9), max_float(float, -1000) >>


(***************************************************************************)
(* Specification SpecItems: a field declared Array whose Array constraint  *)
(* has an item definition (Integer, at least 10); set calls with arrays of *)
(* up to MaxItems elements that satisfy or violate it; validate            *)
(***************************************************************************)
MaxItems == 3

MaxItemSets == 1

ItemDef == constraint(FieldDefinition_new("Integer"), min_int(integer, 10))

ItemsSchema ==
    field(NewSchema, <<"s","1">>, <<"k","1">>,
          constraint(FieldDefinition_new("Array"), item_type(array, ItemDef)))

\* an element that satisfies the item definition, one too small, one of
\* another type
ItemValues == { VInteger(15), VInteger(5), VString(<<"a">>) }

InitItems ==
    /\ values = EmptyMap
    /\ format = "Unknown"
    /\ config_file_path = NoPath
    /\ fs = EmptyFs
    /\ stack = <<>>
    /\ result = Outcome("new", "Ok")
    /\ schema = ItemsSchema
    /\ hist = NewHist

SetItems ==
    /\ hist.sets < MaxItemSets
    /\ \E n \in 0..MaxItems : \E arr \in [1..n -> ItemValues] : Set(<<"s","1">>, <<"k","1">>, VArray(arr))

NextItems == SetItems \/ Validate \/ ValidateAndApplyDefaults

SpecItems == InitItems /\ [][NextItems]_vars

\* the list the field holds
ItemsHeld == get(values, <<"s","1">>, <<"k","1">>).v

\* the error of element i of the list against the item definition, if it
\* violates it
ItemError(i) == FieldDefinition_validate(ItemDef, ItemsHeld[i], item_path(<<"s","1",".","k","1">>, i))

\* the elements of the list that violate the item definition
Violating == { i \in 1..Len(ItemsHeld) : ItemError(i) # <<>> }

\* C26: validate reports every element of the list that violates the item
\* definition, with the path s1.k1[index] of the element, index from 0, and
\* reports no other element
C26_EveryElement ==
    ValidateReturned /\ get(values, <<"s","1">>, <<"k","1">>) # NoValue =>
        /\ \A i \in Violating : Reported(ItemError(i)[1]) = 1
        /\ Len(result.errors) = Cardinality(Violating)
        /\ item_path(<<"s","1",".","k","1">>, 1) = <<"s","1",".","k","1","[","0","]">>

\* validate reports the first element of the list that violates the item
\* definition, with its path, and no other
C26_FirstElement ==
    ValidateReturned /\ get(values, <<"s","1">>, <<"k","1">>) # NoValue =>
        IF Violating = {} THEN result.errors = <<>>
        ELSE result.errors = ItemError(CHOOSE i \in Violating : \A j \in Violating : i <= j)


(***************************************************************************)
(* Specification SpecEmpty: files with sections that have no key (headers  *)
(* of a line-format file, empty tables of a TOML and of a JSON file), a    *)
(* schema that requires such a section; set, load_from_file and the        *)
(* operations of ValidationExt                                             *)
(***************************************************************************)
\* tests/integration_tests.rs, empty_sections.conf, and a section with a key
EmptyIni ==
    LinesFile(<< <<"#","!","c","o","n","f","i","g","/","i","n","i">>, <<"[","s","2","]">>, <<"[","s","3","]">>, <<"[","s","1","]">>, <<"k","2"," ","="," ","1">>, <<"[","s","4","]">> >>)

\* a document with an empty table and a table of one key
EmptyTree ==
    ObjectTree([n \in { <<"s","2">>, <<"s","1">> } |->
                   IF n = <<"s","2">> THEN [t |-> "Table", v |-> EmptyMap]
                   ELSE [t |-> "Table", v |-> [k \in { <<"k","2">> } |-> VInteger(1)]]])

EmptyFiles ==
    LET P == << MainPath, InDir(<<"e",".","t","o","m","l">>), InDir(<<"e",".","j","s","o","n">>) >>
        F == << EmptyIni,
                File(<< <<"#","!","c","o","n","f","i","g","/","t","o","m","l">>, <<"[","s","2","]">>, <<"[","s","1","]">>, <<"k","2"," ","="," ","1">> >>, EmptyTree, NoTree, NoTree),
                File(<< <<"#","!","c","o","n","f","i","g","/","j","s","o","n">>, <<"{","\"","s","2","\"",":"," ","{","}",","," ","\"","s","1","\"",":"," ","{","\"","k","2","\"",":"," ","1","}","}">> >>,
                     NoTree, EmptyTree, EmptyTree) >>
    IN  [q \in { P[i] : i \in 1..3 } |-> F[CHOOSE i \in 1..3 : P[i] = q]]

\* s2 is required and has no field; s1.k1 has a default
EmptySchema == field(required_section(NewSchema, <<"s","2">>), <<"s","1">>, <<"k","1">>, IntDef)

InitEmpty ==
    /\ values = EmptyMap
    /\ format = "Unknown"
    /\ config_file_path = NoPath
    /\ fs = EmptyFiles
    /\ stack = <<>>
    /\ result = Outcome("new", "Ok")
    /\ schema = EmptySchema
    /\ hist = NewHist

SetEmpty ==
    /\ hist.sets < MaxValSets
    /\ \E s \in { <<"s","1">>, <<"s","3">> }, k \in ValKeys : Set(s, k, VInteger(5))

NextEmpty ==
    \/ SetEmpty \/ LoadAny \/ ParseIniStep \/ StructuredStep
    \/ Validate \/ ApplyDefaults \/ ValidateAndApplyDefaults

SpecEmpty == InitEmpty /\ [][NextEmpty]_vars

\* C27: every section of the store has a key; a section that files name
\* without a key under it, and that nothing else assigns, is no section of
\* the store, and validate reports it missing when the schema requires it
C27_NoEmptySection ==
    /\ \A s \in DOMAIN values : DOMAIN values[s] # {}
    /\ DOMAIN values \cap { <<"s","2">>, <<"s","4">> } = {}
    /\ ValidateReturned => Reported(Error("MissingSection", <<"s","2">>)) = 1

\* validate has run after the line-format file with the header of s2 was
\* loaded: the store has the section with a key, and s2 is reported missing
C27_witness ==
    /\ result.op = "validate"
    /\ hist.top = MainPath /\ hist.loads > 0 /\ format = "Ini"
    /\ DOMAIN values = { <<"s","1">> }
    /\ result.errors = << Error("MissingSection", <<"s","2">>) >>


(***************************************************************************)
(* Specification SpecFailed: a program that chooses a format with          *)
(* set_format, sets a pair, loads files whose loads fail in each of the    *)
(* four ways and a file whose load succeeds, and saves the store           *)
(***************************************************************************)
MaxFailedSets == 1

\* a file whose first line names a format ConfigFormat::from does not know
FailedUnknown == File(<< <<"#","!","c","o","n","f","i","g","/","x","y","z">>, <<"k","1"," ","="," ","1">> >>, NoTree, NoTree, NoTree)

FailedFs ==
    LET P == << MainPath, InDir(<<"b",".","y","m","l">>), InDir(<<"x",".","c","o","n","f">>), InDir(<<"t",".","t","o","m","l">>) >>
        F == << KeepFailing, KeepBroken, FailedUnknown, KeepToml >>
    IN  [q \in { P[i] : i \in 1..4 } |-> F[CHOOSE i \in 1..4 : P[i] = q]]

InitFailed == New(FailedFs)

SetFailed ==
    /\ hist.sets < MaxFailedSets
    /\ Set(<<"s","1">>, <<"k","1">>, VInteger(5))

FormatChosen ==
    /\ stack = <<>>
    /\ \E fmt \in {"Ini", "Toml", "Yaml", "Json"} : SetFormat(fmt)

\* one save, to a path no file has
SaveFailed ==
    /\ OutPath \notin DOMAIN fs
    /\ save_to_file(OutPath)

NextFailed ==
    SetFailed \/ FormatChosen \/ LoadAny \/ ParseIniStep \/ StructuredStep \/ SaveFailed

SpecFailed == InitFailed /\ [][NextFailed]_vars

\* C28: when load_from_file has returned an error, whichever it is, the
\* format and the recorded path are what they were before the call
C28_FailedLoadFrame ==
    LoadFailed =>
        /\ format = hist.before.format
        /\ config_file_path = hist.before.path

\* what the code does: a load that fails reading the file leaves both, and a
\* load that fails later has recorded the path it was given and the format
\* the first line of the file names, Unknown included
C28_FailedLoadFrameOfIo ==
    LoadFailed =>
        IF result.status = "Io"
        THEN /\ format = hist.before.format
             /\ config_file_path = hist.before.path
        ELSE /\ config_file_path = hist.top
             /\ format = detect_format_from_content(fs[hist.top].lines)

\* a save after a failed load of a file naming an unknown format fails,
\* whatever format set_format had chosen
C28_SaveFollowsFile ==
    [][ /\ LoadFailed
        /\ result.status = "UnsupportedFormat"
        /\ result'.op = "save"
        => result'.status = "UnsupportedFormat" ]_vars


(***************************************************************************)
(* Specification SpecBuild: a program that builds its schema with section, *)
(* required_section, field, allow_unknown_sections and allow_unknown_keys  *)
(* in any order, sets a pair and validates                                 *)
(***************************************************************************)
MaxBuildSets == 1

BuildSections == { <<"s","1">>, <<"s","2">> }

\* the definition the program registers for a key
BuildDef == [k \in ValKeys |-> IF k = <<"k","1">> THEN IntTwo ELSE StrReq]

\* a call of a method of the schema's builder
Built(op, sch) ==
    /\ stack = <<>>
    /\ schema' = sch
    /\ result' = Outcome(op, "Ok")
    /\ UNCHANGED <<values, format, config_file_path, fs, stack, hist>>

SectionCall ==
    /\ stack = <<>>
    /\ \E s \in BuildSections : Built("section", section(schema, s))

RequiredSectionCall ==
    /\ stack = <<>>
    /\ \E s \in BuildSections : Built("required_section", required_section(schema, s))

FieldCall ==
    /\ stack = <<>>
    /\ \E s \in BuildSections, k \in ValKeys :
          Built("field", field(schema, s, k, BuildDef[k]))

AllowSectionsCall ==
    /\ stack = <<>>
    /\ \E allow \in BOOLEAN : Built("allow_unknown_sections", allow_unknown_sections(schema, allow))

AllowKeysCall ==
    /\ stack = <<>>
    /\ \E allow \in BOOLEAN : Built("allow_unknown_keys", allow_unknown_keys(schema, allow))

SetBuild ==
    /\ hist.sets < MaxBuildSets
    /\ Set(<<"s","1">>, <<"k","1">>, VInteger(5))

InitBuild == New(EmptyFs)

NextBuild ==
    \/ SectionCall \/ RequiredSectionCall \/ FieldCall \/ AllowSectionsCall \/ AllowKeysCall
    \/ SetBuild \/ Validate

SpecBuild == InitBuild /\ [][NextBuild]_vars

\* the pairs of section and key the schema has a definition for
Registered(sch) ==
    { p \in BuildSections \X ValKeys :
        p[1] \in DOMAIN sch.sections /\ p[2] \in DOMAIN sch.sections[p[1]] }

\* C29: a definition registered with field stays registered through every
\* later call of the builder, section and required_section on its own
\* section included
C29_BuildKeepsFields ==
    [][ \A p \in Registered(schema) :
          /\ p \in Registered(schema')
          /\ schema'.sections[p[1]][p[2]] = schema.sections[p[1]][p[2]] ]_vars

\* what the code does: a definition goes only in a section or
\* required_section call, which leaves its section with no field at all;
\* field, the two allow calls, set and validate keep every definition
C29_OnlySectionDrops ==
    [][ \A p \in Registered(schema) \ Registered(schema') :
          /\ result'.op \in {"section", "required_section"}
          /\ p[1] \in DOMAIN schema'.sections
          /\ schema'.sections[p[1]] = EmptyMap ]_vars

\* a value that violates the definition field registered is reported by
\* validate while the definition is registered, and passes once a section
\* call has dropped it
C29_ValidateChecksRegistered ==
    ValidateReturned =>
        \A s \in BuildSections :
            get(values, s, <<"k","1">>) = VInteger(5) =>
                (Reported(Error("TypeMismatch", s \o <<".","k","1">>))
                 + Reported(Error("IntegerTooSmall", s \o <<".","k","1">>)) > 0)
                <=> << s, <<"k","1">> >> \in Registered(schema)


(***************************************************************************)
(* apply_defaults on a store that validates, over specification SpecVal    *)
(***************************************************************************)
\* validate returns Ok(()) for a store
Valid(sch, vals) == ValidationSchema_validate(sch, vals) = { <<>> }

\* every default of the schema satisfies the definition that declares it
DefaultsValid(sch) ==
    \A q \in Fields(sch) :
        LET def == sch.sections[q[1]][q[2]]
        IN  is_some(def.default_value) =>
                FieldDefinition_validate(def, unwrap(def.default_value),
                                         field_path(q[1], q[2])) = <<>>

\* the sections of the schema a store lacks that have a field with a default
\* and a required field without one
HalfDefaulted(sch, vals) ==
    { s \in DOMAIN sch.sections \ DOMAIN vals :
        /\ \E k \in DOMAIN sch.sections[s] : is_some(sch.sections[s][k].default_value)
        /\ \E k \in DOMAIN sch.sections[s] :
              sch.sections[s][k].required /\ ~is_some(sch.sections[s][k].default_value) }

\* apply_defaults or validate_and_apply_defaults has run on a store that
\* validated, under a schema whose defaults satisfy their definitions
DefaultsApplied ==
    /\ result.op \in {"apply_defaults", "validate_and_apply_defaults"}
    /\ DefaultsValid(schema)
    /\ Valid(schema, hist.before.values)

\* C30: a store that validates still validates after apply_defaults, for
\* every schema whose defaults satisfy their own definitions
C30_DefaultsKeepValid == DefaultsApplied => Valid(schema, values)

\* C30, amended: it does when no section the store lacks has both a field
\* with a default and a required field without one, and
\* validate_and_apply_defaults then returns Ok; when there is such a section
\* apply_defaults makes it present and validate fails, with a missing-field
\* error for the required field
C30_DefaultsKeepValidWholeSections ==
    DefaultsApplied =>
        /\ HalfDefaulted(schema, hist.before.values) = {}
           => /\ Valid(schema, values)
              /\ result.op = "validate_and_apply_defaults" => result.status = "Ok"
        /\ \A s \in HalfDefaulted(schema, hist.before.values) :
              /\ s \in DOMAIN values
              /\ ~Valid(schema, values)
              /\ result.op = "validate_and_apply_defaults"
                 => \E k \in DOMAIN schema.sections[s] :
                       Reported(Error("MissingField", field_path(s, k))) = 1

\* a store that validated got a default, into a section it lacked, and
\* still validates
C30_witness ==
    /\ DefaultsApplied
    /\ HalfDefaulted(schema, hist.before.values) = {}
    /\ DOMAIN values # DOMAIN hist.before.values
    /\ Valid(schema, values)

====
